---- MODULE Spec2Model ----
(***************************************************************************)
(* WordRush server: room / round orchestration (server.js) together with   *)
(* the DatabaseService it calls (validation cache, lexicon, room store).   *)
(* Words are sequences of one-character strings so that toLowerCase, trim, *)
(* startsWith, endsWith and length are computed as the code computes them. *)
(***************************************************************************)
EXTENDS Integers, Sequences, FiniteSets, TLC

VARIABLES
    lexicon,     \* Word collection: set of lexicon entries
    wordCache,   \* redis word:<theme>:<normalized> entries
    valCache,    \* redis validation:<theme>:<normalized>:<hash> entries
    pure,        \* call frame of the pure-function specifications
    db,          \* Room collection: roomId -> <<>> or <<room document>>
    hot,         \* redis room:hot:<id> entry that outlived its document
    activeRooms, \* activeRooms map: roomId -> <<>> or <<active room>>
    players,     \* players map: socketId -> <<>> or <<player object>>
    connected,   \* sockets that have not disconnected yet
    h,           \* frames of the running async handlers and timer callbacks
    timers,      \* pending timers no handle refers to, per room
    clock,       \* Date.now()
    budget,      \* inbound events still to arrive
    emit         \* what the last step emitted

cacheVars == <<lexicon, wordCache, valCache>>
roomVars == <<db, hot, activeRooms, players, connected, h, timers, clock,
              budget, emit>>
vars == <<lexicon, wordCache, valCache, pure, db, hot, activeRooms, players,
          connected, h, timers, clock, budget, emit>>

Null == "null"
Undefined == "undefined"

----------------------------------------------------------------------------
(* Characters and strings *)

UpperChars == <<"A","B","C","D","E","F","G","H","I","J","K","L","M",
                "N","O","P","Q","R","S","T","U","V","W","X","Y","Z">>
LowerChars == <<"a","b","c","d","e","f","g","h","i","j","k","l","m",
                "n","o","p","q","r","s","t","u","v","w","x","y","z">>
Digits == <<"0","1","2","3","4","5","6","7","8","9">>

\* Code-unit order of the characters that occur in cache keys.
CharOrder == <<" ">> \o Digits \o <<":">> \o UpperChars \o LowerChars \o <<"|">>

Ord(c) == CHOOSE i \in 1..Len(CharOrder) : CharOrder[i] = c

\* String.prototype.toLowerCase on one character
LowerChar(c) ==
    IF \E i \in 1..26 : UpperChars[i] = c
    THEN LowerChars[CHOOSE i \in 1..26 : UpperChars[i] = c]
    ELSE c

toLowerCase(w) == [i \in 1..Len(w) |-> LowerChar(w[i])]

IsSpace(c) == c = " "

RECURSIVE TrimLeft(_)
TrimLeft(w) ==
    IF w = <<>> THEN <<>>
    ELSE IF IsSpace(Head(w)) THEN TrimLeft(Tail(w)) ELSE w

RECURSIVE TrimRight(_)
TrimRight(w) ==
    IF w = <<>> THEN <<>>
    ELSE IF IsSpace(w[Len(w)]) THEN TrimRight(SubSeq(w, 1, Len(w) - 1)) ELSE w

\* String.prototype.trim
trim(w) == TrimRight(TrimLeft(w))

startsWith(w, p) == Len(p) <= Len(w) /\ SubSeq(w, 1, Len(p)) = p
endsWith(w, p) == Len(p) <= Len(w) /\ SubSeq(w, Len(w) - Len(p) + 1, Len(w)) = p

\* String(n) for the small naturals used as target lengths
NumToChars(n) ==
    IF n < 10 THEN <<Digits[n + 1]>>
    ELSE <<Digits[(n \div 10) + 1], Digits[(n % 10) + 1]>>

\* a < b in JavaScript's default (code unit) string order
RECURSIVE StrLess(_, _)
StrLess(a, b) ==
    IF b = <<>> THEN FALSE
    ELSE IF a = <<>> THEN TRUE
    ELSE IF Head(a) = Head(b) THEN StrLess(Tail(a), Tail(b))
    ELSE Ord(Head(a)) < Ord(Head(b))

Take(w, n) == IF Len(w) <= n THEN w ELSE SubSeq(w, 1, n)

----------------------------------------------------------------------------
(* Game themes, requirement types, alphabet (server.js) and the lexicon *)

themes == <<"Hewan", "Buah", "Negara">>
letters == UpperChars

TypeChars(type) ==
    CASE type = "awalan"  -> <<"a","w","a","l","a","n">>
      [] type = "akhiran" -> <<"a","k","h","i","r","a","n">>
      [] type = "jumlah"  -> <<"j","u","m","l","a","h">>

\* A requirement: value is a letter for awalan/akhiran and a number for jumlah
LetterReq(type, letter, points) ==
    [type |-> type, letter |-> letter, number |-> 0, points |-> points]
NumberReq(number, points) ==
    [type |-> "jumlah", letter |-> "", number |-> number, points |-> points]

\* `${req.value}`
ReqValueChars(req) ==
    IF req.type = "jumlah" THEN NumToChars(req.number) ELSE <<req.letter>>

\* One Word document, as initializeWordData derives it from a word of a theme
LexEntry(theme, word) ==
    LET normalized == toLowerCase(word) IN
    [ word |-> word, theme |-> theme, normalized |-> normalized,
      length |-> Len(normalized),
      firstLetter |-> normalized[1],
      lastLetter |-> normalized[Len(normalized)] ]

Naga == <<"N","a","g","a">>
Ikan == <<"I","k","a","n">>
Singa == <<"S","i","n","g","a">>
Apel == <<"A","p","e","l">>

\* Part of the seeded word data (wordData)
SeedLexicon ==
    { LexEntry("Hewan", Naga), LexEntry("Hewan", Ikan), LexEntry("Buah", Apel) }

----------------------------------------------------------------------------
(* DatabaseService: validation with its cache tiers *)

\* checkRequirements(wordData, requirements)
RECURSIVE checkRequirementsFrom(_, _, _)
checkRequirementsFrom(wordData, requirements, i) ==
    IF i > Len(requirements) THEN FALSE
    ELSE LET req == requirements[i] IN
         IF \/ req.type = "awalan" /\ wordData.firstLetter = LowerChar(req.letter)
            \/ req.type = "akhiran" /\ wordData.lastLetter = LowerChar(req.letter)
            \/ req.type = "jumlah" /\ wordData.length = req.number
         THEN TRUE
         ELSE checkRequirementsFrom(wordData, requirements, i + 1)

checkRequirements(wordData, requirements) ==
    IF ~wordData.exists THEN FALSE
    ELSE checkRequirementsFrom(wordData, requirements, 1)

\* Array.prototype.sort() on strings: insertion into a sorted sequence
RECURSIVE InsertStr(_, _)
InsertStr(sorted, x) ==
    IF sorted = <<>> THEN <<x>>
    ELSE IF StrLess(x, Head(sorted)) THEN <<x>> \o sorted
    ELSE <<Head(sorted)>> \o InsertStr(Tail(sorted), x)

\* The keys left in the order of the requirements
SortStrsSkipped(strs) == strs

RECURSIVE SortStrs(_)
SortStrs(strs) ==
    IF strs = <<>> THEN <<>>
    ELSE InsertStr(SortStrs(SubSeq(strs, 1, Len(strs) - 1)), strs[Len(strs)])

RECURSIVE JoinStrs(_)
JoinStrs(strs) ==
    IF strs = <<>> THEN <<>>
    ELSE IF Len(strs) = 1 THEN strs[1]
    ELSE strs[1] \o <<"|">> \o JoinStrs(Tail(strs))

\* 16 base64 characters encode the first 12 bytes of the joined string
HashBytes == 12

\* getRequirementsHash(requirements)
getRequirementsHash(requirements) ==
    LET keys == [i \in 1..Len(requirements) |->
                    TypeChars(requirements[i].type) \o <<":">>
                        \o ReqValueChars(requirements[i])]
        sorted == JoinStrs(SortStrs(keys))
    IN Take(sorted, HashBytes)

WordCacheHit(wc, theme, normalized) ==
    \E e \in wc : e.theme = theme /\ e.normalized = normalized
WordCacheGet(wc, theme, normalized) ==
    (CHOOSE e \in wc : e.theme = theme /\ e.normalized = normalized).data

ValCacheHit(vc, theme, normalized, hash) ==
    \E e \in vc : e.theme = theme /\ e.normalized = normalized /\ e.hash = hash
ValCacheGet(vc, theme, normalized, hash) ==
    (CHOOSE e \in vc : e.theme = theme /\ e.normalized = normalized
                          /\ e.hash = hash).result

\* redis setEx: replaces the entry of the key
WordCacheSet(wc, theme, normalized, data) ==
    {e \in wc : ~(e.theme = theme /\ e.normalized = normalized)}
        \cup {[theme |-> theme, normalized |-> normalized, data |-> data]}
ValCacheSet(vc, theme, normalized, hash, result) ==
    {e \in vc : ~(e.theme = theme /\ e.normalized = normalized /\ e.hash = hash)}
        \cup {[theme |-> theme, normalized |-> normalized, hash |-> hash,
               result |-> result]}

\* Word.findOne({theme, normalized})
WordFound(lex, theme, normalized) ==
    \E w \in lex : w.theme = theme /\ w.normalized = normalized
WordFindOne(lex, theme, normalized) ==
    CHOOSE w \in lex : w.theme = theme /\ w.normalized = normalized

\* DatabaseService.validateAnswer(answer, requirements, theme): the boolean it
\* resolves to, the caches it leaves and the number of lexicon queries it made
dbValidateAnswer(lex, wc, vc, answer, requirements, theme) ==
    LET normalized == trim(toLowerCase(answer))
        hash == getRequirementsHash(requirements)
    IN
    IF WordCacheHit(wc, theme, normalized)
    THEN LET wordData == WordCacheGet(wc, theme, normalized) IN
         [ result |-> IF wordData.exists
                      THEN checkRequirements(wordData, requirements) ELSE FALSE,
           wordCache |-> wc, valCache |-> vc, queries |-> 0 ]
    ELSE IF ValCacheHit(vc, theme, normalized, hash)
    THEN [ result |-> ValCacheGet(vc, theme, normalized, hash),
           wordCache |-> wc, valCache |-> vc, queries |-> 0 ]
    ELSE IF WordFound(lex, theme, normalized)
    THEN LET word == WordFindOne(lex, theme, normalized)
             wordData == [ exists |-> TRUE, length |-> word.length,
                           firstLetter |-> word.firstLetter,
                           lastLetter |-> word.lastLetter ]
             validationResult == checkRequirements(wordData, requirements)
         IN [ result |-> validationResult,
              wordCache |-> WordCacheSet(wc, theme, normalized, wordData),
              valCache |-> ValCacheSet(vc, theme, normalized, hash, validationResult),
              queries |-> 1 ]
    ELSE [ result |-> FALSE,
           wordCache |-> wc,
           valCache |-> ValCacheSet(vc, theme, normalized, hash, FALSE),
           queries |-> 1 ]

\* Backends that can be down while a submission is validated
Faults == {"none", "cache", "store"}

\* A validation that goes on past the failure of its backend: the outcome
\* of the call without the failure
dbValidateAnswerUncaught(lex, wc, vc, answer, requirements, theme, fault) ==
    LET done == dbValidateAnswer(lex, wc, vc, answer, requirements, theme)
        normalized == trim(toLowerCase(answer))
        missed == /\ ~WordCacheHit(wc, theme, normalized)
                  /\ ~ValCacheHit(vc, theme, normalized,
                                  getRequirementsHash(requirements))
    IN [ result |-> done.result, wordCache |-> done.wordCache,
         valCache |-> done.valCache, queries |-> done.queries,
         failed |-> fault = "cache" \/ (fault = "store" /\ missed) ]

\* DatabaseService.validateAnswer with a backend down: redisClient.get throws
\* at the first read when the cache is down, Word.findOne throws on a cache
\* miss when the store is down; the catch resolves to false and nothing is
\* cached
dbValidateAnswerOnFault(lex, wc, vc, answer, requirements, theme, fault) ==
    LET done == dbValidateAnswer(lex, wc, vc, answer, requirements, theme)
        normalized == trim(toLowerCase(answer))
        missed == /\ ~WordCacheHit(wc, theme, normalized)
                  /\ ~ValCacheHit(vc, theme, normalized,
                                  getRequirementsHash(requirements))
    IN IF fault = "cache"
       THEN [ result |-> FALSE, wordCache |-> wc, valCache |-> vc,
              queries |-> 0, failed |-> TRUE ]
       ELSE IF fault = "store" /\ missed
       THEN [ result |-> FALSE, wordCache |-> wc, valCache |-> vc,
              queries |-> 1, failed |-> TRUE ]
       ELSE [ result |-> done.result, wordCache |-> done.wordCache,
              valCache |-> done.valCache, queries |-> done.queries,
              failed |-> FALSE ]

----------------------------------------------------------------------------
(* Round generation and answer scoring (server.js) *)

\* Outcomes of Math.floor(Math.random() * n)
RandInt(n) == 0..(n - 1)

\* generateRandomPoints() with the remainder taken from point1 alone
generateRandomPointsNoPoint2(r1, r2) ==
    LET point1 == r1 + 10
        point2 == r2 + 10
        point3 == 100 - point1
    IN <<point1, point2, point3>>

\* generateRandomPoints(), with r1 = floor(random * 51) and
\* r2 = floor(random * (90 - point1 - 10)) as the two draws
generateRandomPoints(r1, r2) ==
    LET point1 == r1 + 10
        point2 == r2 + 10
        point3 == 100 - point1 - point2
    IN <<point1, point2, point3>>

Point1Draws == RandInt(51)
\* The second draw taken over 90 - point1 outcomes
Point2DrawsWide(r1) == RandInt(90 - (r1 + 10))
Point2Draws(r1) == RandInt(90 - (r1 + 10) - 10)

\* requirements.sort((a, b) => b.points - a.points): stable, highest first
RECURSIVE InsertByPoints(_, _)
InsertByPoints(sorted, x) ==
    IF sorted = <<>> THEN <<x>>
    ELSE IF x.points > Head(sorted).points THEN <<x>> \o sorted
    ELSE <<Head(sorted)>> \o InsertByPoints(Tail(sorted), x)

RECURSIVE SortByPoints(_)
SortByPoints(reqs) ==
    IF reqs = <<>> THEN <<>>
    ELSE InsertByPoints(SortByPoints(SubSeq(reqs, 1, Len(reqs) - 1)), reqs[Len(reqs)])

\* generateRound(): ti, ai, ki, ni are the draws of the theme, the two letters
\* and the target length; r1, r2 the draws of generateRandomPoints; now is
\* Date.now()
generateRound(ti, ai, ki, ni, r1, r2, now) ==
    LET theme == themes[ti + 1]
        awalanLetter == letters[ai + 1]
        akhiranLetter == letters[ki + 1]
        targetNumber == ni + 3
        points == generateRandomPoints(r1, r2)
        requirements == << LetterReq("awalan", awalanLetter, points[1]),
                           LetterReq("akhiran", akhiranLetter, points[2]),
                           NumberReq(targetNumber, points[3]) >>
    IN [ id |-> now, theme |-> theme,
         requirements |-> SortByPoints(requirements),
         duration |-> 60000, answers |-> <<>> ]

\* The scoring loop with the length requirement never met
RequirementMetNoLength(answer, req) ==
    CASE req.type = "awalan"  ->
             startsWith(toLowerCase(answer), toLowerCase(<<req.letter>>))
      [] req.type = "akhiran" ->
             endsWith(toLowerCase(answer), toLowerCase(<<req.letter>>))
      [] OTHER -> FALSE

\* The scoring loop of validateAnswer(answer, round)
RequirementMet(answer, req) ==
    CASE req.type = "awalan"  ->
             startsWith(toLowerCase(answer), toLowerCase(<<req.letter>>))
      [] req.type = "akhiran" ->
             endsWith(toLowerCase(answer), toLowerCase(<<req.letter>>))
      [] req.type = "jumlah"  -> Len(answer) = req.number
      [] OTHER -> FALSE

RECURSIVE MetRequirementsFrom(_, _, _)
MetRequirementsFrom(answer, requirements, i) ==
    IF i > Len(requirements) THEN <<>>
    ELSE (IF RequirementMet(answer, requirements[i])
          THEN <<requirements[i].type>> ELSE <<>>)
         \o MetRequirementsFrom(answer, requirements, i + 1)

\* The scoring loop awarding only the first requirement met
TotalPointsFirstMet(answer, requirements, i) ==
    LET met == { k \in i..Len(requirements) :
                    RequirementMet(answer, requirements[k]) }
    IN IF met = {} THEN 0
       ELSE requirements[CHOOSE k \in met : \A m \in met : k <= m].points

RECURSIVE TotalPointsFrom(_, _, _)
TotalPointsFrom(answer, requirements, i) ==
    IF i > Len(requirements) THEN 0
    ELSE (IF RequirementMet(answer, requirements[i])
          THEN requirements[i].points ELSE 0)
         + TotalPointsFrom(answer, requirements, i + 1)

\* validateAnswer(answer, round), given what database.validateAnswer resolved to
validateAnswer(answer, round, dbIsValid) ==
    IF ~dbIsValid
    THEN [isValid |-> FALSE, points |-> 0, metRequirements |-> <<>>]
    ELSE [ isValid |-> TRUE,
           points |-> TotalPointsFrom(answer, round.requirements, 1),
           metRequirements |-> MetRequirementsFrom(answer, round.requirements, 1) ]

----------------------------------------------------------------------------
(* Rooms: the durable store (DatabaseService / Room model) *)

NumSockets == 3
SocketNames == <<"s1", "s2", "s3", "s4", "s5">>
Sockets == {SocketNames[i] : i \in 1..NumSockets}

\* Outcomes of generateRoomId() the model draws
RoomIds == {"R1", "R2"}

\* A timer callback of room r runs in the frame h[r]
Procs == Sockets \cup RoomIds

\* username of playerData, as the client sends it: { username }
UsernameOf(s) == s

\* gameSettings of a new Room document: createRoom's literal, totalRounds from
\* the schema default
DefaultTotalRounds == 10
DefaultSettings ==
    [ roundDuration |-> 60, maxAnswersPerRound |-> 3, minPlayers |-> 2,
      maxPlayers |-> 10, totalRounds |-> DefaultTotalRounds,
      themes |-> <<"Hewan", "Buah", "Negara">> ]

\* new Room({...}) in DatabaseService.createRoom, with the schema defaults
NewRoomDoc(roomId, ownerData, inviteCode) ==
    [ id |-> roomId, players |-> <<>>, currentRound |-> <<>>,
      isActive |-> FALSE, ownerId |-> ownerData.socketId,
      ownerUsername |-> ownerData.username, inviteCode |-> inviteCode,
      gameSettings |-> DefaultSettings, currentRoundNumber |-> 1,
      gameStatus |-> "waiting", finalRanking |-> <<>> ]

\* DatabaseService.getRoom: the hot cache entry wins over the document
getRoom(roomId) == IF hot[roomId] # <<>> THEN hot[roomId] ELSE db[roomId]

\* Room.findByIdAndUpdate(roomId, updateData, {new: true}) with the cache
\* refresh of cacheRoomState; no document, no change
UpdatedDb(roomId, updateData) ==
    IF db[roomId] = <<>> THEN db
    ELSE [db EXCEPT ![roomId] =
            << [f \in DOMAIN db[roomId][1] |->
                  IF f \in DOMAIN updateData THEN updateData[f]
                  ELSE db[roomId][1][f]] >>]
UpdatedHot(roomId) ==
    IF db[roomId] = <<>> THEN hot ELSE [hot EXCEPT ![roomId] = <<>>]

\* A delete that is not narrowed to the room's id: every document goes
DeletedDbAll(roomId) == [r \in RoomIds |-> <<>>]

\* DatabaseService.deleteRoom: the document and room:<id> go, room:hot:<id> stays
DeletedDb(roomId) == [db EXCEPT ![roomId] = <<>>]
DeletedHot(roomId) == [hot EXCEPT ![roomId] = getRoom(roomId)]

----------------------------------------------------------------------------
(* Rooms: the volatile maps *)

\* JavaScript Map as a sequence of entries in insertion order
MapHas(m, id) == \E i \in 1..Len(m) : m[i].id = id
MapIndex(m, id) == CHOOSE i \in 1..Len(m) : m[i].id = id
MapGet(m, id) == m[MapIndex(m, id)]
MapSet(m, id, e) ==
    IF MapHas(m, id) THEN [m EXCEPT ![MapIndex(m, id)] = e] ELSE Append(m, e)
RECURSIVE MapDelete(_, _)
MapDelete(m, id) ==
    IF m = <<>> THEN <<>>
    ELSE IF Head(m).id = id THEN Tail(m)
    ELSE <<Head(m)>> \o MapDelete(Tail(m), id)

\* Array.prototype.find / findIndex on room.players by socketId
HasPlayer(ps, socketId) == \E i \in 1..Len(ps) : ps[i].socketId = socketId
PlayerIndex(ps, socketId) ==
    CHOOSE i \in 1..Len(ps) :
        /\ ps[i].socketId = socketId
        /\ \A j \in 1..(i - 1) : ps[j].socketId # socketId

Idle == [pc |-> "idle"]

Ev(to, ev, data) == [to |-> to, ev |-> ev, data |-> data]

\* players-update payload: Array.from(activeRoom.players.values())
PlayerList(ar) ==
    [i \in 1..Len(ar.players) |->
        [ id |-> ar.players[i].id, score |-> ar.players[i].score,
          roundAnswers |-> ar.players[i].roundAnswers ]]

RoomInfo(room) == [ownerId |-> room.ownerId, ownerUsername |-> room.ownerUsername]

----------------------------------------------------------------------------
(* create-room, join-room and joinRoom *)

\* Outcomes of generateInviteCode() the model draws
InviteCodes == {"INV1"}

CanStart(s, kind) ==
    /\ s \in connected
    /\ h[s] = Idle
    /\ budget[kind] > 0

\* The model counts the events that take effect: an event is counted when its
\* handler starts and uncounted when the handler rejects it
Spend(kind) == [budget EXCEPT ![kind] = @ - 1]
Refund(kind) == [budget EXCEPT ![kind] = @ + 1]

\* create-room up to Room.findById in DatabaseService.createRoom
CreateRoom1(s, roomId) ==
    /\ CanStart(s, "create")
    /\ budget' = Spend("create")
    /\ h' = [h EXCEPT ![s] = [ pc |-> "create2", op |-> "create-room",
                               roomId |-> roomId, existing |-> db[roomId] ]]
    /\ emit' = <<>>
    /\ UNCHANGED <<db, hot, activeRooms, players, connected, timers, clock>>

\* DatabaseService.createRoom after findById: return the existing room, or
\* save a new document (a duplicate _id makes save throw)
CreateRoom2(s, inviteCode) ==
    /\ h[s].pc = "create2"
    /\ LET roomId == h[s].roomId
           ownerData == [socketId |-> s, username |-> UsernameOf(s)]
           doc == NewRoomDoc(roomId, ownerData, inviteCode)
       IN
       IF h[s].existing # <<>>
       THEN /\ h' = [h EXCEPT ![s] = [ pc |-> "join1", op |-> "create-room",
                                       roomId |-> roomId,
                                       room |-> h[s].existing[1] ]]
            /\ emit' = <<>>
            /\ UNCHANGED <<db, hot, budget>>
       ELSE IF db[roomId] # <<>>
       THEN /\ h' = [h EXCEPT ![s] = Idle]
            /\ emit' = <<Ev(s, "room-error", "Failed to create room")>>
            /\ budget' = Refund("create")
            /\ UNCHANGED <<db, hot>>
       ELSE /\ db' = [db EXCEPT ![roomId] = <<doc>>]
            /\ hot' = [hot EXCEPT ![roomId] = <<>>]
            /\ h' = [h EXCEPT ![s] = [ pc |-> "join1", op |-> "create-room",
                                       roomId |-> roomId, room |-> doc ]]
            /\ emit' = <<>>
            /\ UNCHANGED budget
    /\ UNCHANGED <<activeRooms, players, connected, timers, clock>>

\* join-room up to database.getRoom in joinRoom
JoinRoom1(s, roomId) ==
    /\ CanStart(s, "join")
    /\ budget' = Spend("join")
    /\ h' = [h EXCEPT ![s] = [ pc |-> "join1", op |-> "join-room",
                               roomId |-> roomId, room |-> <<>> ]]
    /\ emit' = <<>>
    /\ UNCHANGED <<db, hot, activeRooms, players, connected, timers, clock>>

\* What the handler emits when joinRoom returns false
JoinFailed(op) ==
    IF op = "create-room" THEN "Failed to create room" ELSE "Room not found"

\* joinRoom: room = await database.getRoom(roomId)
Join1(s) ==
    /\ h[s].pc = "join1"
    /\ LET room == getRoom(h[s].roomId) IN
       IF room = <<>>
       THEN /\ h' = [h EXCEPT ![s] = Idle]
            /\ emit' = <<Ev(s, "room-error", JoinFailed(h[s].op))>>
            /\ budget' = Refund(IF h[s].op = "create-room" THEN "create" ELSE "join")
       ELSE /\ h' = [h EXCEPT ![s] = [ pc |-> "join2", op |-> h[s].op,
                                       roomId |-> h[s].roomId,
                                       room |-> h[s].room, snap |-> room[1] ]]
            /\ emit' = <<>>
            /\ UNCHANGED budget
    /\ UNCHANGED <<db, hot, activeRooms, players, connected, timers, clock>>

\* An entry of another object than the one the players map holds
Detached(e) == [e EXCEPT !.alias = FALSE]

\* players.set(socketId, fresh object): entries that were the old object of
\* the socket keep it
DetachSocket(ars, s) ==
    [r \in RoomIds |->
        IF ars[r] = <<>> THEN <<>>
        ELSE << [ars[r][1] EXCEPT !.players =
                   [i \in 1..Len(@) |-> IF @[i].id = s THEN Detached(@[i]) ELSE @[i]]] >>]

\* joinRoom, the in-memory part: activeRooms and players
JoinedActiveRooms(s, roomId, isActive, score) ==
    LET ars == DetachSocket(activeRooms, s)
        activeRoom == IF ars[roomId] = <<>>
                      THEN [players |-> <<>>, roundTimer |-> FALSE,
                            isActive |-> isActive]
                      ELSE ars[roomId][1]
        entry == [ id |-> s, username |-> UsernameOf(s), score |-> score,
                   roundAnswers |-> 0, alias |-> FALSE ]
    IN [ars EXCEPT ![roomId] =
           << [activeRoom EXCEPT !.players = MapSet(@, s, entry)] >>]

JoinedPlayers(s, roomId, score) ==
    [players EXCEPT ![s] = << [ id |-> s, username |-> UsernameOf(s),
                                roomId |-> roomId, score |-> score,
                                roundAnswers |-> 0 ] >>]

\* The handler after joinRoom returned true
JoinTail(s, op, roomId, room, ars) ==
    IF op = "create-room"
    THEN <<Ev(s, "room-created", [isOwner |-> TRUE, inviteCode |-> room.inviteCode])>>
         \o (IF ars[roomId] # <<>>
             THEN << Ev(roomId, "players-update", PlayerList(ars[roomId][1])),
                     Ev(roomId, "room-info-update", RoomInfo(room)) >>
             ELSE <<>>)
    ELSE LET dbRoom == getRoom(roomId) IN
         IF dbRoom = <<>> THEN <<>>
         ELSE << Ev(s, "room-joined", [isOwner |-> dbRoom[1].ownerId = s,
                                       inviteCode |-> dbRoom[1].inviteCode]),
                 Ev(roomId, "players-update", PlayerList(ars[roomId][1])),
                 Ev(roomId, "room-info-update", RoomInfo(dbRoom[1])) >>
              \o (IF dbRoom[1].currentRound # <<>>
                  THEN <<Ev(s, "round-start", [currentRound |-> 0])>> ELSE <<>>)

\* joinRoom after getRoom: a new member is pushed and the list written; a
\* known member goes straight on to the in-memory part
Join2(s) ==
    /\ h[s].pc = "join2"
    /\ LET roomId == h[s].roomId
           room == h[s].snap
           existing == HasPlayer(room.players, s)
           score == room.players[PlayerIndex(room.players, s)].score
           ars == JoinedActiveRooms(s, roomId, room.isActive, score)
       IN
       IF ~existing
       THEN /\ db' = UpdatedDb(roomId, [players |->
                        Append(room.players,
                               [ socketId |-> s, username |-> UsernameOf(s),
                                 score |-> 0, roundAnswers |-> 0 ])])
            /\ hot' = UpdatedHot(roomId)
            /\ h' = [h EXCEPT ![s] = [ pc |-> "join3", op |-> h[s].op,
                                       roomId |-> roomId, room |-> h[s].room,
                                       snap |-> room ]]
            /\ emit' = <<>>
            /\ UNCHANGED <<activeRooms, players>>
       ELSE /\ activeRooms' = ars
            /\ players' = JoinedPlayers(s, roomId, score)
            /\ h' = [h EXCEPT ![s] = Idle]
            /\ emit' = JoinTail(s, h[s].op, roomId, h[s].room, ars)
            /\ UNCHANGED <<db, hot>>
    /\ UNCHANGED <<connected, timers, clock, budget>>

\* joinRoom after updateRoom, and the rest of the handler
Join3(s) ==
    /\ h[s].pc = "join3"
    /\ LET roomId == h[s].roomId
           ars == JoinedActiveRooms(s, roomId, h[s].snap.isActive, 0)
       IN /\ activeRooms' = ars
          /\ players' = JoinedPlayers(s, roomId, 0)
          /\ emit' = JoinTail(s, h[s].op, roomId, h[s].room, ars)
    /\ h' = [h EXCEPT ![s] = Idle]
    /\ UNCHANGED <<db, hot, connected, timers, clock, budget>>

----------------------------------------------------------------------------
(* start-game, startNewRound, the round timers and endGame *)

\* start-game: players.get(socket.id) and its check
InRoom(s, roomId) == players[s] # <<>> /\ players[s][1].roomId = roomId

\* start-game without the check that the requester owns the room
StartGameCheckNoOwner(s, dbRoom, activeRoom) ==
    IF dbRoom = <<>> THEN "Room not found"
    ELSE IF \/ activeRoom = <<>>
            \/ Len(activeRoom[1].players) < dbRoom[1].gameSettings.minPlayers
    THEN "Need at least minPlayers players to start"
    ELSE "ok"

\* start-game: the checks on the room that getRoom returned; "ok" lets the
\* game start, anything else is the room-error message
StartGameCheck(s, dbRoom, activeRoom) ==
    IF dbRoom = <<>> THEN "Room not found"
    ELSE IF dbRoom[1].ownerId # s THEN "Only room owner can start the game"
    ELSE IF \/ activeRoom = <<>>
            \/ Len(activeRoom[1].players) < dbRoom[1].gameSettings.minPlayers
    THEN "Need at least minPlayers players to start"
    ELSE "ok"

StartGame1(s, roomId) ==
    /\ CanStart(s, "start")
    /\ IF ~InRoom(s, roomId)
       THEN /\ emit' = <<Ev(s, "room-error", "Not in room")>>
            /\ UNCHANGED <<h, budget>>
       ELSE /\ h' = [h EXCEPT ![s] = [ pc |-> "start2", op |-> "start-game",
                                       roomId |-> roomId,
                                       snap |-> getRoom(roomId) ]]
            /\ emit' = <<>>
            /\ budget' = Spend("start")
    /\ UNCHANGED <<db, hot, activeRooms, players, connected, timers, clock>>

StartGame2(s) ==
    /\ h[s].pc = "start2"
    /\ LET roomId == h[s].roomId
           check == StartGameCheck(s, h[s].snap, activeRooms[roomId])
       IN
       IF check # "ok"
       THEN /\ emit' = <<Ev(s, "room-error", check)>>
            /\ h' = [h EXCEPT ![s] = Idle]
            /\ budget' = Refund("start")
            /\ UNCHANGED <<db, hot>>
       ELSE /\ db' = UpdatedDb(roomId, [currentRoundNumber |-> 1,
                                        gameStatus |-> "playing"])
            /\ hot' = UpdatedHot(roomId)
            /\ h' = [h EXCEPT ![s] = [ pc |-> "round1", op |-> "start-game",
                                       roomId |-> roomId ]]
            /\ emit' = <<>>
            /\ UNCHANGED budget
    /\ UNCHANGED <<activeRooms, players, connected, timers, clock>>

\* startNewRound: dbRoom = await database.getRoom(roomId)
NewRound1(p) ==
    /\ h[p].pc = "round1"
    /\ h' = [h EXCEPT ![p] = [ pc |-> "round2", op |-> h[p].op,
                               roomId |-> h[p].roomId,
                               snap |-> getRoom(h[p].roomId) ]]
    /\ emit' = <<>>
    /\ UNCHANGED <<db, hot, activeRooms, players, connected, timers, clock, budget>>

\* x || d for a number x
OrDefault(x, d) == IF x = 0 THEN d ELSE x

ResetRoundAnswers(ps) == [i \in 1..Len(ps) |-> [ps[i] EXCEPT !.roundAnswers = 0]]

\* startNewRound after getRoom: generate the round and write it, with the
\* players and the round number of the room that was read
NewRound2(p, ti, ai, ki, ni, r1, r2) ==
    /\ h[p].pc = "round2"
    /\ LET roomId == h[p].roomId IN
       IF h[p].snap = <<>> \/ activeRooms[roomId] = <<>>
       THEN /\ h' = [h EXCEPT ![p] = Idle]
            /\ UNCHANGED <<db, hot, clock, budget>>
       ELSE LET dbRoom == h[p].snap[1]
                generated == generateRound(ti, ai, ki, ni, r1, r2, clock)
                newRound == [generated EXCEPT !.duration =
                               OrDefault(dbRoom.gameSettings.roundDuration, 60) * 1000]
                currentRoundNumber == OrDefault(dbRoom.currentRoundNumber, 1)
                totalRounds == OrDefault(dbRoom.gameSettings.totalRounds, 10)
            IN /\ budget.rounds > 0
               /\ budget' = Spend("rounds")
               /\ clock' = clock + 1
               /\ db' = UpdatedDb(roomId,
                          [ currentRound |-> <<newRound>>,
                            players |-> ResetRoundAnswers(dbRoom.players),
                            currentRoundNumber |-> currentRoundNumber,
                            gameStatus |-> "playing", isActive |-> TRUE ])
               /\ hot' = UpdatedHot(roomId)
               /\ h' = [h EXCEPT ![p] = [ pc |-> "round3", op |-> h[p].op,
                                          roomId |-> roomId,
                                          currentRound |-> currentRoundNumber,
                                          totalRounds |-> totalRounds ]]
    /\ emit' = <<>>
    /\ UNCHANGED <<activeRooms, players, connected, timers>>

\* activeRoom.players.forEach(player => player.roundAnswers = 0), seen from
\* the players map: an entry that is the socket's own object resets it too
ResetAliased(ar) ==
    [s \in Sockets |->
        IF /\ players[s] # <<>>
           /\ \E i \in 1..Len(ar.players) : ar.players[i].id = s /\ ar.players[i].alias
        THEN << [players[s][1] EXCEPT !.roundAnswers = 0] >>
        ELSE players[s]]

\* startNewRound after updateRoom: reset the counters in memory, broadcast
\* round-start, clear the previous timer and arm the next
NewRound3(p) ==
    /\ h[p].pc = "round3"
    /\ LET roomId == h[p].roomId IN
       /\ IF activeRooms[roomId] # <<>>
          THEN /\ activeRooms' = [activeRooms EXCEPT ![roomId] =
                     << [@[1] EXCEPT !.players = ResetRoundAnswers(@),
                                     !.roundTimer = TRUE] >>]
               /\ players' = ResetAliased(activeRooms[roomId][1])
               /\ UNCHANGED timers
          ELSE /\ timers' = [timers EXCEPT ![roomId].round = @ + 1]
               /\ UNCHANGED <<activeRooms, players>>
       /\ emit' = <<Ev(roomId, "round-start",
                       [ currentRound |-> h[p].currentRound,
                         totalRounds |-> h[p].totalRounds ])>>
    /\ h' = [h EXCEPT ![p] = Idle]
    /\ UNCHANGED <<db, hot, connected, clock, budget>>


\* The round-end timer fires: the tracked one (activeRoom.roundTimer) or one
\* whose active room is gone. The callback reads the room, broadcasts
\* round-end and schedules the 5 s callback
RoundTimerFire(r, tracked) ==
    /\ h[r] = Idle
    /\ IF tracked
       THEN /\ activeRooms[r] # <<>>
            /\ activeRooms[r][1].roundTimer
            /\ activeRooms' = [activeRooms EXCEPT ![r] =
                                 << [@[1] EXCEPT !.roundTimer = FALSE] >>]
       ELSE /\ timers[r].round > 0
            /\ UNCHANGED activeRooms
    /\ LET currentDbRoom == getRoom(r)
           left == IF tracked THEN timers[r].round ELSE timers[r].round - 1
       IN
       IF currentDbRoom # <<>> /\ currentDbRoom[1].currentRound # <<>>
       THEN /\ emit' = <<Ev(r, "round-end",
                            [answers |-> Len(currentDbRoom[1].currentRound[1].answers)])>>
            /\ timers' = [timers EXCEPT ![r].round = left, ![r].grace = @ + 1]
       ELSE /\ emit' = <<>>
            /\ timers' = [timers EXCEPT ![r].round = left]
    /\ UNCHANGED <<db, hot, players, connected, h, clock, budget>>

\* The 5 s callback: checkRoom = await database.getRoom(roomId)
GraceFire(r) ==
    /\ h[r] = Idle
    /\ timers[r].grace > 0
    /\ timers' = [timers EXCEPT ![r].grace = @ - 1]
    /\ h' = [h EXCEPT ![r] = [ pc |-> "grace2", op |-> "timer", roomId |-> r,
                               snap |-> getRoom(r) ]]
    /\ emit' = <<>>
    /\ UNCHANGED <<db, hot, activeRooms, players, connected, clock, budget>>

\* The 5 s callback after getRoom: end the game, or write the next round
\* number and start the next round 100 ms later, or mark the room inactive
Grace2(r) ==
    /\ h[r].pc = "grace2"
    /\ LET checkRoom == h[r].snap IN
       IF checkRoom # <<>> /\ Len(checkRoom[1].players) > 0
       THEN LET currentRound == OrDefault(checkRoom[1].currentRoundNumber, 1)
                totalRounds == OrDefault(checkRoom[1].gameSettings.totalRounds, 10)
            IN
            IF currentRound >= totalRounds
            THEN /\ h' = [h EXCEPT ![r] = [ pc |-> "end2", op |-> "timer",
                                            roomId |-> r, snap |-> getRoom(r) ]]
                 /\ UNCHANGED <<db, hot>>
            ELSE /\ db' = UpdatedDb(r, [currentRoundNumber |-> currentRound + 1])
                 /\ hot' = UpdatedHot(r)
                 /\ h' = [h EXCEPT ![r] = [ pc |-> "round1", op |-> "timer",
                                            roomId |-> r ]]
       ELSE /\ db' = UpdatedDb(r, [isActive |-> FALSE])
            /\ hot' = UpdatedHot(r)
            /\ h' = [h EXCEPT ![r] = Idle]
    /\ emit' = <<>>
    /\ UNCHANGED <<activeRooms, players, connected, timers, clock, budget>>

\* A sort with the comparison turned round: lowest first
RECURSIVE InsertByScoreAscending(_, _)
InsertByScoreAscending(sorted, x) ==
    IF sorted = <<>> THEN <<x>>
    ELSE IF x.totalScore < Head(sorted).totalScore THEN <<x>> \o sorted
    ELSE <<Head(sorted)>> \o InsertByScoreAscending(Tail(sorted), x)

\* .sort((a, b) => b.totalScore - a.totalScore): stable, highest first
RECURSIVE InsertByScore(_, _)
InsertByScore(sorted, x) ==
    IF sorted = <<>> THEN <<x>>
    ELSE IF x.totalScore > Head(sorted).totalScore THEN <<x>> \o sorted
    ELSE <<Head(sorted)>> \o InsertByScore(Tail(sorted), x)

RECURSIVE SortByScore(_)
SortByScore(ps) ==
    IF ps = <<>> THEN <<>>
    ELSE InsertByScore(SortByScore(SubSeq(ps, 1, Len(ps) - 1)), ps[Len(ps)])

\* endGame: the final ranking of the active room's players
FinalRanking(activeRoom) ==
    LET scored == [i \in 1..Len(activeRoom.players) |->
                      [ playerId |-> activeRoom.players[i].id,
                        username |-> activeRoom.players[i].username,
                        totalScore |-> activeRoom.players[i].score ]]
        sorted == SortByScore(scored)
    IN [i \in 1..Len(sorted) |->
          [ playerId |-> sorted[i].playerId, username |-> sorted[i].username,
            totalScore |-> sorted[i].totalScore, rank |-> i ]]

\* endGame after getRoom: rank the players and write the finished game
EndGame2(r) ==
    /\ h[r].pc = "end2"
    /\ IF h[r].snap = <<>> \/ activeRooms[r] = <<>>
       THEN /\ h' = [h EXCEPT ![r] = Idle]
            /\ UNCHANGED <<db, hot>>
       ELSE LET finalRanking == FinalRanking(activeRooms[r][1]) IN
            /\ db' = UpdatedDb(r, [ finalRanking |-> finalRanking,
                                    gameStatus |-> "finished",
                                    isActive |-> FALSE ])
            /\ hot' = UpdatedHot(r)
            /\ h' = [h EXCEPT ![r] =
                       [ pc |-> "end3", op |-> "timer", roomId |-> r,
                         finalRanking |-> finalRanking,
                         totalRounds |->
                            OrDefault(h[r].snap[1].gameSettings.totalRounds, 10) ]]
    /\ emit' = <<>>
    /\ UNCHANGED <<activeRooms, players, connected, timers, clock, budget>>

\* endGame after updateRoom: broadcast game-end, schedule the 30 s clean-up
EndGame3(r) ==
    /\ h[r].pc = "end3"
    /\ emit' = <<Ev(r, "game-end",
                    [ finalRanking |-> h[r].finalRanking,
                      topThree |-> Take(h[r].finalRanking, 3),
                      totalRounds |-> h[r].totalRounds ])>>
    /\ timers' = [timers EXCEPT ![r].cleanup = @ + 1]
    /\ h' = [h EXCEPT ![r] = Idle]
    /\ UNCHANGED <<db, hot, activeRooms, players, connected, clock, budget>>

\* The 30 s clean-up: activeRooms.delete(roomId); a round timer the active
\* room still held stays pending
CleanupFire(r) ==
    /\ timers[r].cleanup > 0
    /\ timers' = [timers EXCEPT
                    ![r].cleanup = @ - 1,
                    ![r].round = IF activeRooms[r] # <<>> /\ activeRooms[r][1].roundTimer
                                 THEN @ + 1 ELSE @]
    /\ activeRooms' = [activeRooms EXCEPT ![r] = <<>>]
    /\ emit' = <<>>
    /\ UNCHANGED <<db, hot, players, connected, h, clock, budget>>

----------------------------------------------------------------------------
(* submit-answer *)

\* The limit the handler compares player.roundAnswers with
AnswerLimit == 3

\* existingAnswers.some(a => a.answer.toLowerCase() === answer.toLowerCase()
\*                           && a.isValid)
IsDuplicate(existingAnswers, answer) ==
    \E i \in 1..Len(existingAnswers) :
        /\ toLowerCase(existingAnswers[i].answer) = toLowerCase(answer)
        /\ existingAnswers[i].isValid

\* The checks with the comparison of the counter left out
SubmitCheckNoLimit(player, dbRoom, answer) ==
    IF dbRoom = <<>> \/ dbRoom[1].currentRound = <<>> THEN "none"
    ELSE IF IsDuplicate(dbRoom[1].currentRound[1].answers, answer)
    THEN "Jawaban sudah ada"
    ELSE "ok"

\* The checks of submit-answer before validation: "none" when the room has no
\* round, the rejection reason, or "ok"
SubmitCheck(player, dbRoom, answer) ==
    IF dbRoom = <<>> \/ dbRoom[1].currentRound = <<>> THEN "none"
    ELSE IF player.roundAnswers >= AnswerLimit THEN "Maksimal 3 jawaban per round"
    ELSE IF IsDuplicate(dbRoom[1].currentRound[1].answers, answer)
    THEN "Jawaban sudah ada"
    ELSE "ok"

\* submit-answer up to database.getRoom(player.roomId)
Submit1(s, answer) ==
    /\ CanStart(s, "submit")
    /\ players[s] # <<>>
    /\ budget' = Spend("submit")
    /\ h' = [h EXCEPT ![s] = [ pc |-> "submit2", op |-> "submit-answer",
                               roomId |-> players[s][1].roomId,
                               answer |-> answer,
                               snap |-> getRoom(players[s][1].roomId) ]]
    /\ emit' = <<>>
    /\ UNCHANGED <<db, hot, activeRooms, players, connected, timers, clock>>

\* The update of the stored player with the counter raised by valid answers
\* only
ScoredPlayersValidOnly(ps, s, isValid, points) ==
    IF ~HasPlayer(ps, s) THEN ps
    ELSE [ps EXCEPT ![PlayerIndex(ps, s)] =
            [@ EXCEPT !.roundAnswers = IF isValid THEN @ + 1 ELSE @,
                      !.score = IF isValid THEN @ + points ELSE @]]

\* dbRoom.players[playerIndex].roundAnswers++ and score += points
ScoredPlayers(ps, s, isValid, points) ==
    IF ~HasPlayer(ps, s) THEN ps
    ELSE [ps EXCEPT ![PlayerIndex(ps, s)] =
            [@ EXCEPT !.roundAnswers = @ + 1,
                      !.score = IF isValid THEN @ + points ELSE @]]

\* submit-answer after getRoom: the checks, the validation, the answer record
\* and the write of the round and the players that were read
Submit2(s, fault) ==
    /\ h[s].pc = "submit2"
    /\ LET player == players[s][1]
           answer == h[s].answer
           check == SubmitCheck(player, h[s].snap, answer)
       IN
       IF check # "ok"
       THEN /\ emit' = IF check = "none" THEN <<>>
                       ELSE <<Ev(s, "answer-rejected", check)>>
            /\ h' = [h EXCEPT ![s] = Idle]
            /\ budget' = Refund("submit")
            /\ UNCHANGED <<db, hot, wordCache, valCache>>
       ELSE LET dbRoom == h[s].snap[1]
                round == dbRoom.currentRound[1]
                dbv == dbValidateAnswerOnFault(lexicon, wordCache, valCache,
                                               answer, round.requirements,
                                               round.theme, fault)
                res == validateAnswer(answer, round, dbv.result)
                answerRecord ==
                    [ playerId |-> s, username |-> player.username,
                      answer |-> answer, isValid |-> res.isValid,
                      points |-> res.points,
                      metRequirements |-> res.metRequirements ]
            IN /\ wordCache' = dbv.wordCache
               /\ valCache' = dbv.valCache
               /\ db' = UpdatedDb(player.roomId,
                          [ currentRound |->
                               << [round EXCEPT !.answers = Append(@, answerRecord)] >>,
                            players |-> ScoredPlayers(dbRoom.players, s,
                                                      res.isValid, res.points) ])
               /\ hot' = UpdatedHot(player.roomId)
               /\ h' = [h EXCEPT ![s] = [ pc |-> "submit3", op |-> "submit-answer",
                                          roomId |-> player.roomId,
                                          answerRecord |-> answerRecord,
                                          failed |-> dbv.failed ]]
               /\ emit' = <<>>
               /\ UNCHANGED budget
    /\ UNCHANGED <<lexicon, activeRooms, players, connected, timers, clock>>

\* submit-answer after updateRoom: the in-memory player, then the broadcasts
Submit3(s) ==
    /\ h[s].pc = "submit3"
    /\ LET rec == h[s].answerRecord
           old == players[s][1]
           player == [old EXCEPT !.roundAnswers = @ + 1,
                                 !.score = IF rec.isValid THEN @ + rec.points ELSE @]
           roomId == player.roomId
           entry == [ id |-> s, username |-> player.username,
                      score |-> player.score,
                      roundAnswers |-> player.roundAnswers, alias |-> TRUE ]
       IN /\ players' = [players EXCEPT ![s] = <<player>>]
          /\ IF activeRooms[roomId] # <<>>
             THEN /\ activeRooms' = [activeRooms EXCEPT ![roomId] =
                        << [@[1] EXCEPT !.players = MapSet(@, s, entry)] >>]
                  /\ emit' = << Ev(roomId, "new-answer", rec),
                                Ev(roomId, "players-update",
                                   PlayerList(activeRooms'[roomId][1])) >>
             ELSE /\ UNCHANGED activeRooms
                  /\ emit' = <<Ev(roomId, "new-answer", rec)>>
    /\ h' = [h EXCEPT ![s] = Idle]
    /\ UNCHANGED <<db, hot, connected, timers, clock, budget>>

----------------------------------------------------------------------------
(* disconnect and update-settings *)

\* nextOwner.socketId: the active player record is {...playerData, id, score,
\* roundAnswers} and playerData is { username }, so it has no socketId
EntrySocketId(entry) == Undefined

\* ownerId after findByIdAndUpdate(roomId, {ownerId: newOwnerId, ...}): an
\* undefined value is either dropped from the update or stored as null,
\* depending on the mongoose version of the build
TransferredOwnerId(oldOwnerId, newOwnerId, dropUndefined) ==
    IF newOwnerId # Undefined THEN newOwnerId
    ELSE IF dropUndefined THEN oldOwnerId ELSE Null

\* disconnect up to database.getRoom(player.roomId)
Disconnect1(s) ==
    /\ CanStart(s, "disconnect")
    /\ budget' = Spend("disconnect")
    /\ connected' = connected \ {s}
    /\ IF players[s] = <<>>
       THEN UNCHANGED h
       ELSE h' = [h EXCEPT ![s] = [ pc |-> "disc2", op |-> "disconnect",
                                    roomId |-> players[s][1].roomId,
                                    snap |-> getRoom(players[s][1].roomId) ]]
    /\ emit' = <<>>
    /\ UNCHANGED <<db, hot, activeRooms, players, timers, clock>>

\* disconnect, from the players-update broadcast to players.delete: an empty
\* room other than DEFAULT loses its timer, its active room and its document
DisconnectTail(s, roomId, ars, before) ==
    LET list == IF ars[roomId] = <<>> THEN <<>> ELSE ars[roomId][1].players
        update == Ev(roomId, "players-update",
                     IF ars[roomId] = <<>> THEN <<>> ELSE PlayerList(ars[roomId][1]))
    IN /\ emit' = before \o <<update>>
       /\ IF ars[roomId] # <<>> /\ Len(list) = 0 /\ roomId # "DEFAULT"
          THEN /\ activeRooms' = [ars EXCEPT ![roomId] = <<>>]
               /\ db' = DeletedDb(roomId)
               /\ hot' = DeletedHot(roomId)
          ELSE /\ activeRooms' = ars
               /\ UNCHANGED <<db, hot>>
       /\ players' = [players EXCEPT ![s] = <<>>]
       /\ h' = [h EXCEPT ![s] = Idle]

\* disconnect after getRoom: remove the player from the active room; an owner
\* who leaves members behind hands the room over first
Disconnect2(s, dropUndefined) ==
    /\ h[s].pc = "disc2"
    /\ LET roomId == h[s].roomId
           dbRoom == h[s].snap
       IN
       IF activeRooms[roomId] = <<>> \/ dbRoom = <<>>
       THEN /\ players' = [players EXCEPT ![s] = <<>>]
            /\ h' = [h EXCEPT ![s] = Idle]
            /\ emit' = <<>>
            /\ UNCHANGED <<db, hot, activeRooms>>
       ELSE LET ars == [activeRooms EXCEPT ![roomId] =
                          << [@[1] EXCEPT !.players = MapDelete(@, s)] >>]
                remaining == ars[roomId][1].players
            IN
            IF dbRoom[1].ownerId = s /\ Len(remaining) > 0
            THEN LET nextOwner == remaining[1] IN
                 /\ db' = UpdatedDb(roomId,
                            [ ownerId |-> TransferredOwnerId(
                                             dbRoom[1].ownerId,
                                             EntrySocketId(nextOwner),
                                             dropUndefined),
                              ownerUsername |-> nextOwner.username ])
                 /\ hot' = UpdatedHot(roomId)
                 /\ activeRooms' = ars
                 /\ h' = [h EXCEPT ![s] =
                            [ pc |-> "disc3", op |-> "disconnect",
                              roomId |-> roomId,
                              newOwnerId |-> EntrySocketId(nextOwner),
                              newOwnerUsername |-> nextOwner.username ]]
                 /\ emit' = <<>>
                 /\ UNCHANGED players
            ELSE DisconnectTail(s, roomId, ars, <<>>)
    /\ UNCHANGED <<connected, timers, clock, budget>>

\* disconnect after transferRoomOwnership: announce the new owner, re-read the
\* room for room-info-update, then the common tail
Disconnect3(s) ==
    /\ h[s].pc = "disc3"
    /\ LET roomId == h[s].roomId
           updatedRoom == getRoom(roomId)
           transferred == Ev(roomId, "ownership-transferred",
                             [ newOwnerId |-> h[s].newOwnerId,
                               newOwnerUsername |-> h[s].newOwnerUsername ])
           info == IF updatedRoom = <<>> THEN <<>>
                   ELSE <<Ev(roomId, "room-info-update", RoomInfo(updatedRoom[1]))>>
       IN DisconnectTail(s, roomId, activeRooms, <<transferred>> \o info)
    /\ UNCHANGED <<connected, timers, clock, budget>>

\* The checks of update-settings with the comparison of the owner left out
SettingsCheckNoOwner(s, dbRoom) ==
    IF dbRoom = <<>> THEN "Room not found" ELSE "ok"

\* update-settings: the checks on the room that getRoom returned
SettingsCheck(s, dbRoom) ==
    IF dbRoom = <<>> THEN "Room not found"
    ELSE IF dbRoom[1].ownerId # s THEN "Only room owner can change settings"
    ELSE "ok"

UpdateSettings1(s, roomId, settings) ==
    /\ CanStart(s, "settings")
    /\ IF ~InRoom(s, roomId)
       THEN /\ emit' = <<Ev(s, "room-error", "Not in room")>>
            /\ UNCHANGED <<h, budget>>
       ELSE /\ h' = [h EXCEPT ![s] = [ pc |-> "settings2", op |-> "update-settings",
                                       roomId |-> roomId, settings |-> settings,
                                       snap |-> getRoom(roomId) ]]
            /\ emit' = <<>>
            /\ budget' = Spend("settings")
    /\ UNCHANGED <<db, hot, activeRooms, players, connected, timers, clock>>

\* update-settings after getRoom: updateGameSettings replaces gameSettings
UpdateSettings2(s) ==
    /\ h[s].pc = "settings2"
    /\ LET roomId == h[s].roomId
           check == SettingsCheck(s, h[s].snap)
       IN
       IF check # "ok"
       THEN /\ emit' = <<Ev(s, "room-error", check)>>
            /\ budget' = Refund("settings")
            /\ UNCHANGED <<db, hot>>
       ELSE /\ db' = UpdatedDb(roomId, [gameSettings |-> h[s].settings])
            /\ hot' = UpdatedHot(roomId)
            /\ emit' = IF db'[roomId] = <<>>
                       THEN <<Ev(s, "room-error", "Failed to update settings")>>
                       ELSE <<Ev(roomId, "room-info-update", RoomInfo(db'[roomId][1]))>>
            /\ UNCHANGED budget
    /\ h' = [h EXCEPT ![s] = Idle]
    /\ UNCHANGED <<activeRooms, players, connected, timers, clock>>

\* The hot cache entry of a deleted room expires (60 s)
ExpireHot(r) ==
    /\ hot[r] # <<>>
    /\ hot' = [hot EXCEPT ![r] = <<>>]
    /\ emit' = <<>>
    /\ UNCHANGED <<db, activeRooms, players, connected, h, timers, clock, budget>>

\* Nothing of room r is under way: no handler of a member or for the room
\* is in progress and no timer of the room is armed, so any time can pass
Inactive(r) ==
    /\ \A p \in Procs : h[p] = Idle
    /\ timers[r] = [round |-> 0, grace |-> 0, cleanup |-> 0]
    /\ activeRooms[r] # <<>> => ~activeRooms[r][1].roundTimer

\* Room.find of cleanupInactiveRooms, for room r: rooms that are not active
\* and were last touched 30 minutes ago, and rooms with no players
SweepFinds(r) ==
    /\ db[r] # <<>>
    /\ \/ ~db[r][1].isActive /\ Inactive(r)
       \/ Len(db[r][1].players) = 0

\* cleanupInactiveRooms (every 5 minutes) up to Room.find, for a room found
Sweep1(r) ==
    /\ h[r] = Idle
    /\ budget.sweeps > 0
    /\ SweepFinds(r)
    /\ budget' = Spend("sweeps")
    /\ h' = [h EXCEPT ![r] = [pc |-> "sweep2", op |-> "sweep", roomId |-> r]]
    /\ emit' = <<>>
    /\ UNCHANGED <<db, hot, activeRooms, players, connected, timers, clock>>

\* cleanupInactiveRooms: await this.deleteRoom(room._id)
Sweep2(r) ==
    /\ h[r].pc = "sweep2"
    /\ db' = DeletedDb(r)
    /\ hot' = DeletedHot(r)
    /\ h' = [h EXCEPT ![r] = Idle]
    /\ emit' = <<>>
    /\ UNCHANGED <<activeRooms, players, connected, timers, clock, budget>>

----------------------------------------------------------------------------
(* The server as a whole *)

\* Inbound events the model lets arrive, the connections that are open, the
\* ids generateRoomId draws, the draws generateRound takes and the backends
\* that fail during a validation.  A run of the server is explored under one of
\* nine budgets: a lifecycle run (rooms, starts, rounds, disconnects, no
\* answers), a play run (two players answering in one round), a limit run
\* (one player answering after a settings update), a crowd run (three
\* connections joining one room), a two-room run (one connection creating
\* two rooms and playing a round), a restart run (one connection playing a game to its end,
\* starting again and coming back after the clean-up), an overlap run
\* (one connection answering while the game goes from one round to the
\* next), an outage run (one connection answering while the cache or the
\* lexicon store is down) and a sweep run (a room created, joined and
\* started while the periodic clean-up of the room store runs).
MaxStarts == 2
MaxDisconnects == 2
MaxRounds == 2
PlaySubmits == 2
LimitSubmits == 4
CrowdJoins == 2
MaxCreates == 2
RestartStarts == 3
RestartRounds == 4
OverlapRounds == 2
OutageSubmits == 2
MaxSweeps == 1

TwoSockets == {SocketNames[1], SocketNames[2]}

\* Draws of generateRound the room specifications take: theme Hewan, prefix
\* N or X, suffix A, length 4 or 3, points 30 / 40 / 30
RoundDraws == { <<0, 13, 0, 1, 20, 30>>, <<0, 23, 0, 0, 20, 30>> }
\* The same with a draw of theme Buah
ThemedDraws == RoundDraws \cup { <<1, 23, 0, 0, 20, 30>> }

LifeBudget ==
    [ create |-> 1, join |-> 1, start |-> MaxStarts, settings |-> 1,
      submit |-> 0, disconnect |-> MaxDisconnects, sweeps |-> 0, rounds |-> MaxRounds,
      connections |-> TwoSockets, roomIds |-> {"R1"},
      draws |-> RoundDraws, faults |-> {"none"} ]
PlayBudget ==
    [ create |-> 1, join |-> 1, start |-> 1, settings |-> 0,
      submit |-> PlaySubmits, disconnect |-> 0, sweeps |-> 0, rounds |-> 1,
      connections |-> TwoSockets, roomIds |-> {"R1"},
      draws |-> RoundDraws, faults |-> {"none"} ]
LimitBudget ==
    [ create |-> 1, join |-> 0, start |-> 1, settings |-> 1,
      submit |-> LimitSubmits, disconnect |-> 0, sweeps |-> 0, rounds |-> 1,
      connections |-> TwoSockets, roomIds |-> {"R1"},
      draws |-> RoundDraws, faults |-> {"none"} ]
CrowdBudget ==
    [ create |-> 1, join |-> CrowdJoins, start |-> 0, settings |-> 1,
      submit |-> 0, disconnect |-> 0, sweeps |-> 0, rounds |-> 0,
      connections |-> Sockets, roomIds |-> {"R1"},
      draws |-> RoundDraws, faults |-> {"none"} ]
TwoRoomBudget ==
    [ create |-> MaxCreates, join |-> 1, start |-> 1, settings |-> 1,
      submit |-> 1, disconnect |-> 1, sweeps |-> 0, rounds |-> 1,
      connections |-> {SocketNames[1]}, roomIds |-> RoomIds,
      draws |-> RoundDraws, faults |-> {"none"} ]
RestartBudget ==
    [ create |-> 1, join |-> 1, start |-> RestartStarts, settings |-> 1,
      submit |-> 0, disconnect |-> 0, sweeps |-> 0, rounds |-> RestartRounds,
      connections |-> {SocketNames[1]}, roomIds |-> {"R1"},
      draws |-> RoundDraws, faults |-> {"none"} ]
OverlapBudget ==
    [ create |-> 1, join |-> 0, start |-> 1, settings |-> 1,
      submit |-> 1, disconnect |-> 0, sweeps |-> 0, rounds |-> OverlapRounds,
      connections |-> {SocketNames[1]}, roomIds |-> {"R1"},
      draws |-> ThemedDraws, faults |-> {"none"} ]
OutageBudget ==
    [ create |-> 1, join |-> 0, start |-> 1, settings |-> 1,
      submit |-> OutageSubmits, disconnect |-> 0, sweeps |-> 0, rounds |-> 1,
      connections |-> {SocketNames[1]}, roomIds |-> {"R1"},
      draws |-> RoundDraws, faults |-> Faults ]
SweepBudget ==
    [ create |-> 1, join |-> 1, start |-> 1, settings |-> 0,
      submit |-> 0, disconnect |-> 0, sweeps |-> MaxSweeps, rounds |-> 1,
      connections |-> TwoSockets, roomIds |-> {"R1"},
      draws |-> RoundDraws, faults |-> {"none"} ]
Budgets ==
    { LifeBudget, PlayBudget, LimitBudget, CrowdBudget, TwoRoomBudget,
      RestartBudget, OverlapBudget, OutageBudget, SweepBudget }

NagaSp == Naga \o <<" ">>
\* Answers the clients submit
Answers == {Naga, NagaSp, Ikan}

\* Settings an owner sends with update-settings. The handler hands the object
\* to findByIdAndUpdate as it arrives, and the update is written with no
\* validators requested, so the schema's ranges do not filter it
SettingsChoices ==
    { [ roundDuration |-> 30, maxAnswersPerRound |-> 2, minPlayers |-> 1,
        maxPlayers |-> 2, totalRounds |-> 2, themes |-> <<"Hewan">> ] }

\* Sockets are interchangeable: the one that creates a room is called s1
Creators == {SocketNames[1]}

NoPure == [fn |-> "none"]

InitRoomsOf(connections) ==
    /\ db = [r \in RoomIds |-> <<>>]
    /\ hot = [r \in RoomIds |-> <<>>]
    /\ activeRooms = [r \in RoomIds |-> <<>>]
    /\ players = [s \in Sockets |-> <<>>]
    /\ connected = connections
    /\ h = [p \in Procs |-> Idle]
    /\ timers = [r \in RoomIds |-> [round |-> 0, grace |-> 0, cleanup |-> 0]]
    /\ clock = 1
    /\ emit = <<>>

InitRooms == InitRoomsOf(Sockets)

Init ==
    /\ budget \in Budgets
    /\ InitRoomsOf(budget.connections)
    /\ lexicon = SeedLexicon
    /\ wordCache = {}
    /\ valCache = {}
    /\ pure = NoPure

\* A step of the room handlers leaves the word store and its caches alone
RoomOnly(A) == A /\ UNCHANGED <<cacheVars, pure>>

Next ==
    \/ \E s \in Creators, r \in budget.roomIds : RoomOnly(CreateRoom1(s, r))
    \/ \E s \in Sockets, c \in InviteCodes : RoomOnly(CreateRoom2(s, c))
    \/ \E s \in Sockets, r \in budget.roomIds : RoomOnly(JoinRoom1(s, r))
    \/ \E s \in Sockets : RoomOnly(Join1(s))
    \/ \E s \in Sockets : RoomOnly(Join2(s))
    \/ \E s \in Sockets : RoomOnly(Join3(s))
    \/ \E s \in Sockets, r \in RoomIds : RoomOnly(StartGame1(s, r))
    \/ \E s \in Sockets : RoomOnly(StartGame2(s))
    \/ \E p \in Procs : RoomOnly(NewRound1(p))
    \/ \E p \in Procs, d \in budget.draws :
          RoomOnly(NewRound2(p, d[1], d[2], d[3], d[4], d[5], d[6]))
    \/ \E p \in Procs : RoomOnly(NewRound3(p))
    \/ \E r \in RoomIds, tracked \in BOOLEAN : RoomOnly(RoundTimerFire(r, tracked))
    \/ \E r \in RoomIds : RoomOnly(GraceFire(r))
    \/ \E r \in RoomIds : RoomOnly(Grace2(r))
    \/ \E r \in RoomIds : RoomOnly(EndGame2(r))
    \/ \E r \in RoomIds : RoomOnly(EndGame3(r))
    \/ \E r \in RoomIds : RoomOnly(CleanupFire(r))
    \/ \E s \in Sockets, a \in Answers : RoomOnly(Submit1(s, a))
    \/ \E s \in Sockets : RoomOnly(Submit3(s))
    \/ \E s \in Sockets : RoomOnly(Disconnect1(s))
    \/ \E s \in Sockets, dropUndefined \in BOOLEAN : RoomOnly(Disconnect2(s, dropUndefined))
    \/ \E s \in Sockets : RoomOnly(Disconnect3(s))
    \/ \E s \in Sockets, r \in RoomIds, g \in SettingsChoices : RoomOnly(UpdateSettings1(s, r, g))
    \/ \E s \in Sockets : RoomOnly(UpdateSettings2(s))
    \/ \E r \in RoomIds : RoomOnly(ExpireHot(r))
    \/ \E r \in RoomIds : RoomOnly(Sweep1(r))
    \/ \E r \in RoomIds : RoomOnly(Sweep2(r))
    \/ \E s \in Sockets, fault \in budget.faults : Submit2(s, fault) /\ UNCHANGED pure

Spec == Init /\ [][Next]_vars

----------------------------------------------------------------------------
(* generateRound and validateAnswer on their own: a call leaves its inputs
   and its result in pure, the rooms stay as constructed *)

QuietRooms ==
    UNCHANGED <<db, hot, activeRooms, players, connected, h, timers, clock,
                budget, emit>>

NoBudget ==
    [ create |-> 0, join |-> 0, start |-> 0, settings |-> 0, submit |-> 0,
      disconnect |-> 0, sweeps |-> 0, rounds |-> 0, connections |-> Sockets,
      roomIds |-> RoomIds, draws |-> {},
      faults |-> {} ]

PureReturn ==
    /\ pure # NoPure
    /\ pure' = NoPure
    /\ QuietRooms
    /\ UNCHANGED cacheVars

\* Draws of theme, letters and target length the calls below take; the two
\* draws of generateRandomPoints range over all their outcomes
ThemeDraws == {0}
AwalanDraws == {13, 18}
AkhiranDraws == {0}
NumberDraws == {1, 2}

GenerateRoundCall(ti, ai, ki, ni, r1, r2) ==
    /\ pure = NoPure
    /\ pure' = [ fn |-> "generateRound",
                 round |-> generateRound(ti, ai, ki, ni, r1, r2, clock) ]
    /\ QuietRooms
    /\ UNCHANGED cacheVars

InitRound ==
    /\ InitRooms
    /\ lexicon = SeedLexicon
    /\ wordCache = {}
    /\ valCache = {}
    /\ pure = NoPure
    /\ budget = NoBudget

NextRound ==
    \/ \E ti \in ThemeDraws, ai \in AwalanDraws, ki \in AkhiranDraws,
          ni \in NumberDraws, r1 \in Point1Draws :
          \E r2 \in Point2Draws(r1) : GenerateRoundCall(ti, ai, ki, ni, r1, r2)
    \/ PureReturn

SpecRound == InitRound /\ [][NextRound]_vars

\* Lexicons validateAnswer is called against: the seeded words, with or
\* without Singa among the Hewan words
Lexicons == { SeedLexicon, SeedLexicon \cup {LexEntry("Hewan", Singa)} }

SingaSp == Singa \o <<" ">>
LowerSinga == toLowerCase(Singa)
\* Answers validateAnswer is called with
ValidateAnswers == {Singa, SingaSp, LowerSinga, Naga, Ikan, Apel}

\* A round whose suffix letter arrives in lower case
WithLowerSuffix(round) ==
    [ round EXCEPT !.requirements =
        [ i \in 1..Len(round.requirements) |->
            IF round.requirements[i].type = "akhiran"
            THEN [ round.requirements[i] EXCEPT !.letter = LowerChar(@) ]
            ELSE round.requirements[i] ] ]

\* Rounds validateAnswer is called with: prefix S or N, suffix A or a,
\* length 5 or 4, points 30 / 40 / 30
ValidateRounds ==
    LET upper == { generateRound(0, ai, 0, ni, 20, 30, 1) :
                      ai \in {13, 18}, ni \in {1, 2} }
    IN upper \cup { WithLowerSuffix(r) : r \in upper }

\* validateAnswer(answer, round) with the database call it awaits
ValidateAnswerCall(answer, round) ==
    LET v == dbValidateAnswer(lexicon, wordCache, valCache, answer,
                              round.requirements, round.theme)
    IN
    /\ pure = NoPure
    /\ pure' = [ fn |-> "validateAnswer", answer |-> answer, round |-> round,
                 result |-> validateAnswer(answer, round, v.result) ]
    /\ wordCache' = v.wordCache
    /\ valCache' = v.valCache
    /\ UNCHANGED lexicon
    /\ QuietRooms

InitValidate ==
    /\ InitRooms
    /\ lexicon \in Lexicons
    /\ wordCache = {}
    /\ valCache = {}
    /\ pure = NoPure
    /\ budget = NoBudget

NextValidate ==
    \/ \E answer \in ValidateAnswers, round \in ValidateRounds :
          ValidateAnswerCall(answer, round)
    \/ PureReturn

SpecValidate == InitValidate /\ [][NextValidate]_vars

\* Scores and active rooms endGame ranks: up to MaxRanked members in every
\* insertion order, each with one of the scores
MaxRanked == 4
RankScores == {0, 30, 100}
RankedIds == { SocketNames[i] : i \in 1..MaxRanked }

RankedMaps ==
    UNION { { m \in [1..n -> [ id : RankedIds, score : RankScores ]] :
                \A i, j \in 1..n : i # j => m[i].id # m[j].id }
            : n \in 0..MaxRanked }

\* The active room endGame reads, with the given players map
RankedRoom(m) ==
    [ players |-> [ i \in 1..Len(m) |->
                      [ id |-> m[i].id, username |-> UsernameOf(m[i].id),
                        score |-> m[i].score, roundAnswers |-> 0,
                        alias |-> FALSE ] ],
      roundTimer |-> FALSE, isActive |-> TRUE ]

\* endGame: the ranking it writes and the game-end payload it broadcasts
EndGameCall(m) ==
    /\ pure = NoPure
    /\ LET finalRanking == FinalRanking(RankedRoom(m)) IN
       pure' = [ fn |-> "endGame", players |-> RankedRoom(m).players,
                 finalRanking |-> finalRanking,
                 topThree |-> Take(finalRanking, 3) ]
    /\ QuietRooms
    /\ UNCHANGED cacheVars

InitRanking ==
    /\ InitRooms
    /\ lexicon = SeedLexicon
    /\ wordCache = {}
    /\ valCache = {}
    /\ pure = NoPure
    /\ budget = NoBudget

NextRanking ==
    \/ \E m \in RankedMaps : EndGameCall(m)
    \/ PureReturn

SpecRanking == InitRanking /\ [][NextRanking]_vars

\* Requirements getRequirementsHash is called with: prefix A or N, suffix A,
\* length 3 or 10, up to HashReqs of them in any order
HashReqs == 3
HashPool ==
    { LetterReq("awalan", "A", 30), LetterReq("awalan", "N", 30),
      LetterReq("akhiran", "A", 40), NumberReq(3, 30), NumberReq(10, 30) }
HashLists ==
    UNION { { q \in [1..n -> HashPool] : \A i, j \in 1..n : i # j => q[i] # q[j] }
            : n \in 1..HashReqs }
Orders(n) ==
    { f \in [1..n -> 1..n] : \A i, j \in 1..n : i # j => f[i] # f[j] }

\* getRequirementsHash on a requirement list and on the same requirements in
\* another order
HashCall(requirements, f) ==
    LET permuted == [i \in 1..Len(requirements) |-> requirements[f[i]]] IN
    /\ pure = NoPure
    /\ pure' = [ fn |-> "getRequirementsHash", requirements |-> requirements,
                 permuted |-> permuted,
                 hash |-> getRequirementsHash(requirements),
                 permutedHash |-> getRequirementsHash(permuted) ]
    /\ QuietRooms
    /\ UNCHANGED cacheVars

InitHash ==
    /\ InitRooms
    /\ lexicon = SeedLexicon
    /\ wordCache = {}
    /\ valCache = {}
    /\ pure = NoPure
    /\ budget = NoBudget

NextHash ==
    \/ \E requirements \in HashLists :
          \E f \in Orders(Len(requirements)) : HashCall(requirements, f)
    \/ PureReturn

SpecHash == InitHash /\ [][NextHash]_vars

\* Rounds validateAnswer is called with in every order of their
\* requirements: prefix S or N, suffix A, length 5 or 4, points 20 / 30 / 50
OrderRounds ==
    { generateRound(0, ai, 0, ni, 10, 20, 1) : ai \in {13, 18}, ni \in {1, 2} }

\* validateAnswer(answer, round), then validateAnswer on the same answer and
\* the same requirements in the order f: once from the caches the first call
\* found, once from the caches it left
ValidateOrdersCall(answer, round, f) ==
    LET permuted == [ round EXCEPT !.requirements =
                        [i \in 1..Len(round.requirements) |->
                            round.requirements[f[i]]] ]
        v == dbValidateAnswer(lexicon, wordCache, valCache, answer,
                              round.requirements, round.theme)
        same == dbValidateAnswer(lexicon, wordCache, valCache, answer,
                                 permuted.requirements, permuted.theme)
        after == dbValidateAnswer(lexicon, v.wordCache, v.valCache, answer,
                                  permuted.requirements, permuted.theme)
    IN
    /\ pure = NoPure
    /\ pure' = [ fn |-> "validateAnswerOrders", answer |-> answer,
                 round |-> round, permuted |-> permuted,
                 result |-> validateAnswer(answer, round, v.result),
                 permutedResult |->
                     validateAnswer(answer, permuted, same.result),
                 repeatedResult |->
                     validateAnswer(answer, permuted, after.result) ]
    /\ wordCache' = after.wordCache
    /\ valCache' = after.valCache
    /\ UNCHANGED lexicon
    /\ QuietRooms

InitOrders ==
    /\ InitRooms
    /\ lexicon \in Lexicons
    /\ wordCache = {}
    /\ valCache = {}
    /\ pure = NoPure
    /\ budget = NoBudget

NextOrders ==
    \/ \E answer \in ValidateAnswers, round \in OrderRounds :
          \E f \in Orders(Len(round.requirements)) :
              ValidateOrdersCall(answer, round, f)
    \/ PureReturn

SpecOrders == InitOrders /\ [][NextOrders]_vars

\* The key of the validation-result tier,
\* validation:<theme>:<normalized>:<getRequirementsHash(requirements)>
reqCacheKey(theme, answer, requirements) ==
    << theme, trim(toLowerCase(answer)), getRequirementsHash(requirements) >>

\* The keys validateAnswer uses for one word under one theme with the
\* requirements of two rounds
CacheKeysCall(theme, answer, first, second) ==
    /\ pure = NoPure
    /\ pure' = [ fn |-> "reqCacheKey", theme |-> theme, answer |-> answer,
                 first |-> first.requirements,
                 second |-> second.requirements,
                 firstKey |-> reqCacheKey(theme, answer, first.requirements),
                 secondKey |-> reqCacheKey(theme, answer, second.requirements) ]
    /\ QuietRooms
    /\ UNCHANGED cacheVars

InitKeys ==
    /\ InitRooms
    /\ lexicon = SeedLexicon
    /\ wordCache = {}
    /\ valCache = {}
    /\ pure = NoPure
    /\ budget = NoBudget

NextKeys ==
    \/ \E answer \in ValidateAnswers, first \in OrderRounds \cup ValidateRounds,
          second \in OrderRounds \cup ValidateRounds :
          CacheKeysCall(first.theme, answer, first, second)
    \/ PureReturn

SpecKeys == InitKeys /\ [][NextKeys]_vars



----------------------------------------------------------------------------
(* Properties of round generation and scoring *)

RECURSIVE SumPoints(_)
SumPoints(requirements) ==
    IF requirements = <<>> THEN 0
    ELSE Head(requirements).points + SumPoints(Tail(requirements))

\* C1: every round generateRound produces, for every outcome of the draws of
\* generateRandomPoints, has three requirements whose point values sum to
\* exactly 100
C1_PointsSumTo100 ==
    pure.fn = "generateRound" =>
        /\ Len(pure.round.requirements) = 3
        /\ SumPoints(pure.round.requirements) = 100

\* A generated round at the edge of the draws: points 60, 29 and 11
C1_Witness ==
    /\ pure.fn = "generateRound"
    /\ \E i, j, k \in 1..3 :
          /\ pure.round.requirements[i].points = 60
          /\ pure.round.requirements[j].points = 29
          /\ pure.round.requirements[k].points = 11

\* The requirements of C3: prefix "S" worth 30, suffix "a" worth 40 and
\* length 5 worth 30
SingaRequirements(requirements) ==
    /\ Len(requirements) = 3
    /\ \E i, j, k \in 1..3 :
          /\ requirements[i] = LetterReq("awalan", "S", 30)
          /\ requirements[j] = LetterReq("akhiran", "a", 40)
          /\ requirements[k] = NumberReq(5, 30)

\* "Singa" validated against those requirements, with Singa in the lexicon
\* under the round's theme
SingaCase ==
    /\ pure.fn = "validateAnswer"
    /\ pure.answer = Singa
    /\ SingaRequirements(pure.round.requirements)
    /\ LexEntry(pure.round.theme, Singa) \in lexicon

MetSet(metRequirements) ==
    { metRequirements[i] : i \in 1..Len(metRequirements) }

\* C3 as stated: in that case "Singa" is valid and is awarded 70 points, the
\* length requirement not being met
C3_SingaAwarded70 ==
    SingaCase =>
        /\ pure.result.isValid
        /\ pure.result.points = 70
        /\ MetSet(pure.result.metRequirements) = {"awalan", "akhiran"}

\* C3 amended: in that case "Singa" is valid and is awarded 100 points, the
\* prefix, the suffix and the length requirement all being met
C3_SingaAwarded100 ==
    SingaCase =>
        /\ pure.result.isValid
        /\ pure.result.points = 100
        /\ MetSet(pure.result.metRequirements) = {"awalan", "akhiran", "jumlah"}

C3_Witness ==
    /\ SingaCase
    /\ pure.result.isValid
    /\ pure.result.points = 100

----------------------------------------------------------------------------
(* Properties of submit-answer *)

\* The answer list of the current round of a stored room, empty without one
RoundAnswersOf(room) ==
    IF room = <<>> THEN <<>>
    ELSE IF room[1].currentRound = <<>> THEN <<>>
    ELSE room[1].currentRound[1].answers

\* The normalized form of a submitted text: lower case, trimmed
Normalized(answer) == trim(toLowerCase(answer))

\* C2: every answer record written with isValid = true is of a word that is
\* in the lexicon under the round's theme, has a non-empty metRequirements,
\* and carries the sum of the points of the requirements it satisfies
C2_ValidRecordScored ==
    \A r \in RoomIds :
        LET answers == RoundAnswersOf(db[r]) IN
        \A i \in 1..Len(answers) :
            answers[i].isValid =>
                LET round == db[r][1].currentRound[1] IN
                /\ WordFound(lexicon, round.theme, Normalized(answers[i].answer))
                /\ answers[i].metRequirements # <<>>
                /\ answers[i].points =
                       TotalPointsFrom(answers[i].answer, round.requirements, 1)

\* A valid record of the round holds the normalized form of the text
ValidRecorded(answers, answer) ==
    \E i \in 1..Len(answers) :
        /\ answers[i].isValid
        /\ Normalized(answers[i].answer) = Normalized(answer)

\* C4: a submission that finds, in the round it reads, a valid record of a
\* text with the same normalized form is rejected with 'Jawaban sudah ada'
\* and writes no record
C4_DuplicateRejected ==
    [][ \A s \in Sockets :
          ( /\ h[s].pc = "submit2"
            /\ h'[s].pc # "submit2"
            /\ players[s][1].roundAnswers < AnswerLimit
            /\ ValidRecorded(RoundAnswersOf(h[s].snap), h[s].answer) )
          => /\ emit' = <<Ev(s, "answer-rejected", "Jawaban sudah ada")>>
             /\ db' = db ]_vars

\* C5: the answer list of a round never holds two valid records of texts with
\* the same normalized form
C5_OneValidRecordPerText ==
    \A r \in RoomIds :
        LET answers == RoundAnswersOf(db[r]) IN
        \A i, j \in 1..Len(answers) :
            ( /\ i < j
              /\ answers[i].isValid
              /\ answers[j].isValid )
            => Normalized(answers[i].answer) # Normalized(answers[j].answer)

\* Records of the round submitted by one connection
CountBy(answers, s) ==
    Cardinality({ i \in 1..Len(answers) : answers[i].playerId = s })

\* C6: no player has more records in a round than the room's configured
\* maxAnswersPerRound
C6_WithinConfiguredLimit ==
    \A r \in RoomIds :
        db[r] # <<>> =>
            \A s \in Sockets :
                CountBy(RoundAnswersOf(db[r]), s)
                    <= db[r][1].gameSettings.maxAnswersPerRound

----------------------------------------------------------------------------
(* Properties of the game lifecycle and of ownership *)

\* C7: while a room is playing its round number changes only by going up by
\* exactly one, and a room becomes finished only from a round whose number
\* is totalRounds
C7_RoundNumberStepsByOne ==
    [][ \A r \in RoomIds :
          (db[r] # <<>> /\ db'[r] # <<>>) =>
              /\ ( /\ db[r][1].gameStatus = "playing"
                   /\ db'[r][1].currentRoundNumber # db[r][1].currentRoundNumber )
                 => db'[r][1].currentRoundNumber = db[r][1].currentRoundNumber + 1
              /\ ( /\ db[r][1].gameStatus # "finished"
                   /\ db'[r][1].gameStatus = "finished" )
                 => db[r][1].currentRoundNumber
                        = OrDefault(db[r][1].gameSettings.totalRounds, 10) ]_vars

\* An event of the list goes to the whole room
BroadcastTo(r, events, ev) ==
    \E i \in 1..Len(events) : events[i].to = r /\ events[i].ev = ev

\* C8: a finished room stays finished, and no round-start is broadcast to it
C8_FinishedIsTerminal ==
    [][ \A r \in RoomIds :
          (db[r] # <<>> /\ db[r][1].gameStatus = "finished") =>
              /\ db'[r] # <<>> => db'[r][1].gameStatus = "finished"
              /\ ~BroadcastTo(r, emit', "round-start") ]_vars

\* Connections that are members of the active room
Members(activeRoom) ==
    IF activeRoom = <<>> THEN {}
    ELSE { activeRoom[1].players[i].id : i \in 1..Len(activeRoom[1].players) }

\* C9: when the hand-over of a room that keeps members is announced to it,
\* the room's ownerId is the connection id of one of the remaining members
C9_OwnerHandedOver ==
    [][ \A r \in RoomIds :
          ( /\ BroadcastTo(r, emit', "ownership-transferred")
            /\ db'[r] # <<>>
            /\ Members(activeRooms'[r]) # {} )
          => db'[r][1].ownerId \in Members(activeRooms'[r]) ]_vars

\* The requester owns the room the handler read, and the active room has the
\* minimum of members that room configures
StartAllowed(s, dbRoom, activeRoom) ==
    /\ dbRoom # <<>>
    /\ dbRoom[1].ownerId = s
    /\ activeRoom # <<>>
    /\ Len(activeRoom[1].players) >= dbRoom[1].gameSettings.minPlayers

\* C10: a start-game of a requester who is not the owner of the room, or in
\* a room below minPlayers, gives room-error to the requester alone and
\* leaves the room's status, round number, current round and timers as they
\* were; the owner and minPlayers are those of the room the handler read
C10_StartGameGuarded ==
    [][ \A s \in Sockets :
          ( /\ h[s].pc = "start2"
            /\ h'[s].pc # "start2"
            /\ ~StartAllowed(s, h[s].snap, activeRooms[h[s].roomId]) )
          => /\ Len(emit') = 1
             /\ emit'[1].to = s
             /\ emit'[1].ev = "room-error"
             /\ UNCHANGED <<db, hot, activeRooms, timers>> ]_vars

\* A start-game of a member who is not the owner has been turned down
C10_Witness ==
    \E s \in Sockets :
        /\ Len(emit) = 1
        /\ emit[1].to = s
        /\ emit[1].ev = "room-error"
        /\ emit[1].data = "Only room owner can start the game"
        /\ \E r \in RoomIds :
              /\ InRoom(s, r)
              /\ db[r] # <<>>
              /\ db[r][1].ownerId # s
              /\ db[r][1].gameStatus = "waiting"

\* C11: a connection becomes a member of a room only while the room has
\* fewer members than the maxPlayers its record configures
C11_JoinRespectsMaxPlayers ==
    [][ \A r \in RoomIds : \A s \in Sockets :
          ( /\ db[r] # <<>>
            /\ s \notin Members(activeRooms[r])
            /\ s \in Members(activeRooms'[r]) )
          => Cardinality(Members(activeRooms[r]))
                 < db[r][1].gameSettings.maxPlayers ]_vars

\* Rooms whose active member set holds the connection
RoomsOf(s) == { r \in RoomIds : s \in Members(activeRooms[r]) }

\* C12: no connection is in the member set of two rooms, and a connection
\* whose disconnect has been handled is in the member set of none
C12_MemberOfOneRoom ==
    \A s \in Sockets :
        /\ Cardinality(RoomsOf(s)) <= 1
        /\ (s \notin connected /\ h[s] = Idle) => RoomsOf(s) = {}

\* Connections in the member list of the stored room
DurableMembers(dbRoom) ==
    IF dbRoom = <<>> THEN {}
    ELSE { dbRoom[1].players[i].socketId : i \in 1..Len(dbRoom[1].players) }

\* The step ends a join of s with success: room-created or room-joined goes
\* to s and players-update to the room
JoinSucceeds(s, r) ==
    /\ h[s].pc \in {"join1", "join2", "join3"}
    /\ h[s].roomId = r
    /\ h'[s] = Idle
    /\ BroadcastTo(r, emit', "players-update")

\* C13: at the players-update of a join that succeeds the joiner is in the
\* stored member list and in the active room, and a member of the active
\* room stays in the stored member list of the room while the room is stored
C13_JoinIsDurable ==
    [][ \A r \in RoomIds : \A s \in Sockets :
          /\ (JoinSucceeds(s, r) /\ db'[r] # <<>>) =>
                 /\ s \in DurableMembers(db'[r])
                 /\ s \in Members(activeRooms'[r])
          /\ ( /\ s \in DurableMembers(db[r])
               /\ s \in Members(activeRooms[r])
               /\ s \in Members(activeRooms'[r])
               /\ db'[r] # <<>> )
             => s \in DurableMembers(db'[r]) ]_vars

\* The step ends the disconnect of s with the players-update to a room that
\* keeps members
LeavesNonEmpty(s, r) ==
    /\ h[s].pc \in {"disc2", "disc3"}
    /\ h[s].roomId = r
    /\ h'[s] = Idle
    /\ BroadcastTo(r, emit', "players-update")
    /\ Members(activeRooms'[r]) # {}
    /\ db'[r] # <<>>

\* C14: at the players-update that follows the disconnect of a member from a
\* room that keeps members, the member is in neither the stored member list
\* nor the active room
C14_LeaverRemovedFromBoth ==
    [][ \A r \in RoomIds : \A s \in Sockets :
          LeavesNonEmpty(s, r) =>
              /\ s \notin Members(activeRooms'[r])
              /\ s \notin DurableMembers(db'[r]) ]_vars

\* The step is the room lookup of a join-room of s for a room id that has no
\* stored record
JoinLooksUpMissing(s) ==
    /\ h[s].pc = "join1"
    /\ h[s].op = "join-room"
    /\ h'[s] # h[s]
    /\ db[h[s].roomId] = <<>>

\* C15: a join-room for a room id whose record is gone (the last member
\* left and the room was torn down) fails with room not found and adds no
\* member
C15_JoinAfterTeardownFails ==
    [][ \A s \in Sockets :
          JoinLooksUpMissing(s) =>
              /\ h'[s] = Idle
              /\ Len(emit') = 1
              /\ emit'[1].to = s
              /\ emit'[1].ev = "room-error"
              /\ emit'[1].data = "Room not found" ]_vars

\* Round-end timers of the room that are armed and have not fired: the one
\* activeRoom.roundTimer holds and those of active rooms since deleted
LiveRoundTimers(r) ==
    timers[r].round
      + (IF activeRooms[r] # <<>> /\ activeRooms[r][1].roundTimer THEN 1 ELSE 0)

\* C16: a room has at most one live round-end timer
C16_OneLiveRoundTimer ==
    \A r \in RoomIds : LiveRoundTimers(r) <= 1

\* The step is the 30 s clean-up callback of the room firing
CleanupRuns(r) == timers'[r].cleanup < timers[r].cleanup

\* C17: a clean-up callback that fires when the room it was scheduled for
\* is no longer finished (it was restarted and is playing) changes nothing
\* of the room
C17_StaleCallbackIsNoOp ==
    [][ \A r \in RoomIds :
          ( /\ CleanupRuns(r)
            /\ db[r] # <<>>
            /\ db[r][1].gameStatus = "playing" )
          => UNCHANGED <<db, hot, activeRooms, players>> ]_vars

\* The position of the member in the players map
ScoreIn(ps, id) == CHOOSE i \in 1..Len(ps) : ps[i].id = id

\* C18: the final ranking of endGame holds exactly the members of the active
\* room, each with its score, highest score first, with rank equal to the
\* position; topThree is its first min(3, n) entries
C18_FinalRankingOrdered ==
    pure.fn = "endGame" =>
        LET ps == pure.players
            ranking == pure.finalRanking
            n == Len(ps)
        IN /\ Len(ranking) = n
           /\ { ranking[i].playerId : i \in 1..n } = { ps[i].id : i \in 1..n }
           /\ \A i \in 1..n :
                 /\ ranking[i].rank = i
                 /\ ranking[i].totalScore = ps[ScoreIn(ps, ranking[i].playerId)].score
           /\ \A i, j \in 1..n :
                 i < j => ranking[i].totalScore >= ranking[j].totalScore
           /\ \A i \in 1..n : ranking[1].totalScore >= ps[i].score
           /\ pure.topThree = SubSeq(ranking, 1, IF n < 3 THEN n ELSE 3)

\* endGame has ranked four members, two of them level, whom the players map
\* holds lowest score first
C18_Witness ==
    /\ pure.fn = "endGame"
    /\ Len(pure.players) = 4
    /\ pure.players[1].score < pure.players[2].score
    /\ pure.players[2].score = pure.players[3].score
    /\ pure.players[3].score < pure.players[4].score
    /\ pure.finalRanking[1].playerId = pure.players[4].id
    /\ Len(pure.topThree) = 3

\* The score the stored room holds for the member
DurableScore(dbRoom, s) ==
    dbRoom[1].players[PlayerIndex(dbRoom[1].players, s)].score

\* C19: no step lowers the score of a player, in the players map or in the
\* member list of the stored room
C19_ScoreNeverDecreases ==
    [][ /\ \A s \in Sockets :
              ( /\ players[s] # <<>>
                /\ players'[s] # <<>>
                /\ players'[s][1].roomId = players[s][1].roomId )
              => players'[s][1].score >= players[s][1].score
        /\ \A r \in RoomIds : \A s \in Sockets :
              ( /\ s \in DurableMembers(db[r])
                /\ s \in DurableMembers(db'[r]) )
              => DurableScore(db'[r], s) >= DurableScore(db[r], s) ]_vars

\* The step keeps the current round of the room: the stored room has the
\* round with the same id before and after
SameRound(r) ==
    /\ db[r] # <<>>
    /\ db'[r] # <<>>
    /\ db[r][1].currentRound # <<>>
    /\ db'[r][1].currentRound # <<>>
    /\ db'[r][1].currentRound[1].id = db[r][1].currentRound[1].id

\* C20: while the round is not replaced, every answer record written to it
\* stays at its place in the round's answer list, unchanged
C20_AnswersAppendOnly ==
    [][ \A r \in RoomIds :
          SameRound(r) =>
              LET before == db[r][1].currentRound[1].answers
                  after == db'[r][1].currentRound[1].answers
              IN /\ Len(after) >= Len(before)
                 /\ SubSeq(after, 1, Len(before)) = before ]_vars

\* The round without its answer list
RoundHead(round) ==
    [ id |-> round.id, theme |-> round.theme,
      requirements |-> round.requirements, duration |-> round.duration ]

\* The step is the write of a submit-answer handler to the room
SubmitWrites(s, r) ==
    /\ h[s].pc = "submit2"
    /\ h[s].roomId = r
    /\ h'[s] # h[s]
    /\ db'[r] # db[r]

\* C21: the write of a submit-answer changes only the answer list of the
\* room's current round: the stored current round keeps its id, theme,
\* requirements and duration, so a round that has been replaced is not put
\* back
C21_SubmitKeepsCurrentRound ==
    [][ \A r \in RoomIds : \A s \in Sockets :
          ( /\ SubmitWrites(s, r)
            /\ db[r] # <<>>
            /\ db[r][1].currentRound # <<>> )
          => /\ db'[r] # <<>>
             /\ db'[r][1].currentRound # <<>>
             /\ RoundHead(db'[r][1].currentRound[1])
                  = RoundHead(db[r][1].currentRound[1]) ]_vars

\* The step is startNewRound storing the round it generated
RoundStored(p, r) ==
    /\ h[p].pc = "round2"
    /\ h[p].roomId = r
    /\ h'[p].pc = "round3"

\* C22: the theme of a round startNewRound stores for a room is one of the
\* themes the room's gameSettings configure
C22_ThemeFromRoomSettings ==
    [][ \A r \in RoomIds : \A p \in Procs :
          RoundStored(p, r) =>
              \E i \in 1..Len(db[r][1].gameSettings.themes) :
                  db'[r][1].currentRound[1].theme
                      = db[r][1].gameSettings.themes[i] ]_vars

\* The step is the validation and write of a submit-answer of s whose
\* validation met a backend that is down
FailedValidation(s) ==
    /\ h[s].pc = "submit2"
    /\ h'[s].pc = "submit3"
    /\ h'[s].failed

\* The step is the in-memory update and broadcast of such a submit-answer
FailedBroadcast(s) ==
    /\ h[s].pc = "submit3"
    /\ h[s].failed
    /\ h'[s] = Idle

ConnectedPlayers(r) ==
    { s \in connected : players[s] # <<>> /\ players[s][1].roomId = r }

\* The room's game is playing with a connected player, and nothing is left
\* that could take it further: no round-end timer and no 5 s callback is
\* pending and no handler or callback is running
GameStuck(r) ==
    /\ db[r] # <<>>
    /\ db[r][1].gameStatus = "playing"
    /\ ConnectedPlayers(r) # {}
    /\ LiveRoundTimers(r) = 0
    /\ timers[r].grace = 0
    /\ \A p \in Procs : h[p] = Idle

\* C24: a started game with a connected player always has a pending timer
\* or a running callback that takes it further towards game-end
C24_StartedGameGoesOn ==
    \A r \in RoomIds : ~GameStuck(r)

\* The step is createRoom returning a room to the create-room handler of s,
\* which goes on to join it
RoomReturned(s) ==
    /\ h[s].pc = "create2"
    /\ h'[s].pc = "join1"

\* C25: the room createRoom returns to a create-room did not exist when the
\* request drew its id, and where room-created is sent with isOwner true
\* the stored ownerId is the creator
C25_CreateAllocatesFreshRoom ==
    [][ \A s \in Sockets :
          /\ RoomReturned(s) =>
                /\ h[s].existing = <<>>
                /\ db[h[s].roomId] = <<>>
                /\ db'[h[s].roomId][1].ownerId = s
                /\ db'[h[s].roomId][1].players = <<>>
          /\ \A i \in 1..Len(emit') :
                ( /\ emit'[i].ev = "room-created"
                  /\ emit'[i].to = s
                  /\ emit'[i].data.isOwner
                  /\ db'[h[s].roomId] # <<>> )
                => db'[h[s].roomId][1].ownerId = s ]_vars

\* What a room is made of: its stored record, its cached copy, its active
\* room (members with score and counter, timer handle) and its pending
\* timers; before and after the step
RoomState(r) ==
    << db[r], hot[r],
       IF activeRooms[r] = <<>> THEN <<>>
       ELSE << PlayerList(activeRooms[r][1]), activeRooms[r][1].roundTimer,
               activeRooms[r][1].isActive >>,
       timers[r] >>
RoomStateAfter(r) ==
    << db'[r], hot'[r],
       IF activeRooms'[r] = <<>> THEN <<>>
       ELSE << PlayerList(activeRooms'[r][1]), activeRooms'[r][1].roundTimer,
               activeRooms'[r][1].isActive >>,
       timers'[r] >>

\* Rooms the step changes, and the rooms the handler or callback p works on
\* in the step
ChangedRooms == { r \in RoomIds : RoomStateAfter(r) # RoomState(r) }
TargetRooms(p) ==
    (IF h[p] # Idle THEN {h[p].roomId} ELSE {})
        \cup (IF h'[p] # Idle THEN {h'[p].roomId} ELSE {})

\* C26: a step changes at most one room, the one its handler or callback
\* works on, and leaves the player records of the other connections that
\* are in other rooms as they were
C26_RoomsIndependent ==
    [][ /\ Cardinality(ChangedRooms) <= 1
        /\ \A p \in Procs :
              h'[p] # h[p] =>
                  /\ ChangedRooms \subseteq TargetRooms(p)
                  /\ \A s \in Sockets \ {p} :
                        (players[s] # <<>> /\ players[s][1].roomId \notin TargetRooms(p))
                            => players'[s] = players[s] ]_vars

\* Two rooms are stored with the connection in the active room of both, and
\* a round is running in one of them only
C26_Witness ==
    \E a, b \in RoomIds :
        /\ a # b
        /\ db[a] # <<>>
        /\ db[b] # <<>>
        /\ activeRooms[a] # <<>>
        /\ activeRooms[b] # <<>>
        /\ db[a][1].currentRound # <<>>
        /\ Len(db[a][1].currentRound[1].answers) = 1
        /\ db[b][1].currentRound = <<>>
        /\ db[b][1].gameStatus = "waiting"

\* C27: getRequirementsHash gives the same value for a requirement list and
\* for every permutation of it
C27_HashOrderIndependent ==
    pure.fn = "getRequirementsHash" => pure.permutedHash = pure.hash

\* The hash was taken of three requirements, two of them of type awalan, and
\* of the same three in reverse order
C27_Witness ==
    /\ pure.fn = "getRequirementsHash"
    /\ Len(pure.requirements) = 3
    /\ pure.requirements[1].type = "awalan"
    /\ pure.requirements[2].type = "jumlah"
    /\ pure.requirements[3].type = "awalan"
    /\ pure.permuted[1] = pure.requirements[3]
    /\ pure.permuted[3] = pure.requirements[1]
    /\ pure.permuted # pure.requirements
    /\ pure.hash # <<>>

\* A validateAnswer call that found neither cache tier holding its key
ValidationMisses ==
    /\ pure = NoPure
    /\ pure'.fn = "validateAnswer"
    /\ ~WordCacheHit(wordCache, pure'.round.theme, Normalized(pure'.answer))
    /\ ~ValCacheHit(valCache, pure'.round.theme, Normalized(pure'.answer),
                    getRequirementsHash(pure'.round.requirements))

\* C28: a validateAnswer call that misses both cache tiers leaves the
\* word-existence entry and the validation-result entry of its key written,
\* whether or not the lexicon holds the word
C28_MissFillsBothTiers ==
    [][ ValidationMisses =>
          /\ WordCacheHit(wordCache', pure'.round.theme,
                          Normalized(pure'.answer))
          /\ ValCacheHit(valCache', pure'.round.theme,
                         Normalized(pure'.answer),
                         getRequirementsHash(pure'.round.requirements)) ]_vars

\* C29: every round generateRound produces has exactly three requirements,
\* one of type awalan, one of type akhiran and one of type jumlah, and every
\* requirement's points are an integer of at least 10
C29_ThreeTypedRequirements ==
    pure.fn = "generateRound" =>
        /\ Len(pure.round.requirements) = 3
        /\ { pure.round.requirements[i].type : i \in 1..3 }
               = {"awalan", "akhiran", "jumlah"}
        /\ \A i \in 1..Len(pure.round.requirements) :
              /\ pure.round.requirements[i].points \in Int
              /\ pure.round.requirements[i].points >= 10

\* A generated round at the low edge of both draws: the length requirement
\* worth 80 first, prefix and suffix worth 10 each
C29_Witness ==
    /\ pure.fn = "generateRound"
    /\ pure.round.requirements[1].type = "jumlah"
    /\ pure.round.requirements[1].points = 80
    /\ pure.round.requirements[2].type = "awalan"
    /\ pure.round.requirements[2].points = 10
    /\ pure.round.requirements[3].type = "akhiran"
    /\ pure.round.requirements[3].points = 10

\* What a validateAnswer result scores: validity, the set of requirement
\* types met and the points
Scoring(result) ==
    << result.isValid, MetSet(result.metRequirements), result.points >>

\* C30: for every answer and every order of a round's three requirements,
\* validateAnswer returns the same validity, the same set of met requirement
\* types and the same points
C30_OrderDoesNotAffectScoring ==
    pure.fn = "validateAnswerOrders" =>
        /\ Scoring(pure.permutedResult) = Scoring(pure.result)
        /\ Scoring(pure.repeatedResult) = Scoring(pure.result)

\* A valid answer meeting at least two requirements worth different points
\* was scored against the round and against its requirements reversed, and
\* the met types were listed in another order
C30_Witness ==
    /\ pure.fn = "validateAnswerOrders"
    /\ pure.result.isValid
    /\ Len(pure.result.metRequirements) >= 2
    /\ pure.result.points >= 50
    /\ pure.permuted.requirements[1] = pure.round.requirements[3]
    /\ pure.permuted.requirements[3] = pure.round.requirements[1]
    /\ pure.permutedResult.metRequirements # pure.result.metRequirements

\* The word is not in the lexicon under the theme, or it is and meets none of
\* the requirements
NotAcceptable(answer, round) ==
    LET normalized == Normalized(answer) IN
    \/ ~WordFound(lexicon, round.theme, normalized)
    \/ LET word == WordFindOne(lexicon, round.theme, normalized) IN
       ~checkRequirements([ exists |-> TRUE, length |-> word.length,
                            firstLetter |-> word.firstLetter,
                            lastLetter |-> word.lastLetter ],
                          round.requirements)

\* The step is the validation and write of a submit-answer of s that passed
\* the limit and duplicate checks with such a word, all backends up
UnacceptableValidated(s) ==
    /\ h[s].pc = "submit2"
    /\ h'[s].pc = "submit3"
    /\ ~h'[s].failed
    /\ NotAcceptable(h[s].answer, h[s].snap[1].currentRound[1])

\* The step is the in-memory update and broadcast of a submit-answer whose
\* record is invalid
InvalidBroadcast(s) ==
    /\ h[s].pc = "submit3"
    /\ ~h[s].failed
    /\ ~h[s].answerRecord.isValid
    /\ h'[s] = Idle

\* Scores of the entries of an active room, by member
ActiveScores(activeRoom) ==
    IF activeRoom = <<>> THEN {}
    ELSE { <<activeRoom[1].players[i].id, activeRoom[1].players[i].score>> :
              i \in 1..Len(activeRoom[1].players) }

RoundBroadcast(p, r) ==
    /\ h[p].pc = "round3"
    /\ h[p].roomId = r
    /\ h'[p] = Idle
    /\ activeRooms[r] # <<>>

\* The counter the stored room holds for the member
DurableCounter(dbRoom, s) ==
    dbRoom[1].players[PlayerIndex(dbRoom[1].players, s)].roundAnswers

\* The round starts with every counter at zero, in the stored room and in
\* the players map
CountersZeroAtStart ==
    \A r \in RoomIds : \A p \in Procs :
        /\ RoundStored(p, r) =>
              \A s \in DurableMembers(db'[r]) : DurableCounter(db'[r], s) = 0
        /\ RoundBroadcast(p, r) =>
              \A s \in Sockets :
                  ( players'[s] # <<>> /\ players'[s][1].roomId = r )
                      => players'[s][1].roundAnswers = 0

\* A step that raises a member's stored counter is the write of a
\* submit-answer that read the round the room is in
CountersRaisedInRound ==
    \A r \in RoomIds : \A s \in Sockets :
        ( /\ s \in DurableMembers(db[r])
          /\ s \in DurableMembers(db'[r])
          /\ db[r][1].currentRound # <<>>
          /\ DurableCounter(db'[r], s) > DurableCounter(db[r], s) )
        => \E q \in Sockets :
              /\ SubmitWrites(q, r)
              /\ h[q].snap[1].currentRound[1].id = db[r][1].currentRound[1].id

\* C32: at every round start each member's counter is zero in the stored
\* room and in the players map, and a counter of the previous round does not
\* come back once the new round is stored, however round starts and
\* submissions interleave
C32_CountersResetEachRound ==
    [][ CountersZeroAtStart /\ CountersRaisedInRound ]_vars

\* The step is a submit-answer of s passing its guards and checks: the
\* answer record is written to the stored round
SubmitProcessed(s) ==
    /\ h[s].pc = "submit2"
    /\ h'[s].pc = "submit3"

\* C33: a submission is processed only while the room has an active round:
\* the room the handler read is playing, and the record is not written
\* between the round-end broadcast and the callback that starts the next
\* round or ends the game
C33_ProcessedOnlyInActiveRound ==
    [][ \A s \in Sockets :
          SubmitProcessed(s) =>
              /\ h[s].snap[1].gameStatus = "playing"
              /\ timers[h[s].roomId].grace = 0 ]_vars

\* No handler and no timer callback is in progress
AllIdle == \A p \in Procs : h[p] = Idle

\* C34: whenever nothing is in progress, every member the stored room and
\* the active room both hold has the same score and the same counter in the
\* two
C34_DurableMatchesVolatile ==
    \A r \in RoomIds :
        ( AllIdle /\ db[r] # <<>> /\ activeRooms[r] # <<>> ) =>
            \A i \in 1..Len(activeRooms[r][1].players) :
                LET entry == activeRooms[r][1].players[i] IN
                HasPlayer(db[r][1].players, entry.id) =>
                    /\ DurableScore(db[r], entry.id) = entry.score
                    /\ DurableCounter(db[r], entry.id) = entry.roundAnswers

\* The step is the checks of a submit-answer of s in a room with a round,
\* with s at the limit or with the text already recorded as a valid answer
\* of the round
RejectedSubmission(s) ==
    /\ h[s].pc = "submit2"
    /\ h'[s] # h[s]
    /\ h[s].snap # <<>>
    /\ h[s].snap[1].currentRound # <<>>
    /\ \/ players[s][1].roundAnswers >= 3
       \/ \E i \in 1..Len(h[s].snap[1].currentRound[1].answers) :
             LET a == h[s].snap[1].currentRound[1].answers[i] IN
             a.isValid /\ toLowerCase(a.answer) = toLowerCase(h[s].answer)

\* C35: a submission rejected for the limit or as a duplicate is answered
\* with answer-rejected to the submitter alone; the stored room with its
\* round, answers and scores, the active rooms, the players map and the
\* timers stay as they were
C35_RejectionLeavesRoomUntouched ==
    [][ \A s \in Sockets :
          RejectedSubmission(s) =>
              /\ h'[s] = Idle
              /\ Len(emit') = 1
              /\ emit'[1].to = s
              /\ emit'[1].ev = "answer-rejected"
              /\ UNCHANGED <<db, hot, activeRooms, players, timers>> ]_vars

\* The second member's submission of a text the first member had scored with
\* was just rejected as a duplicate, to the second member alone
C35_Witness ==
    \E s \in Sockets, r \in RoomIds :
        /\ h[s] = Idle
        /\ Len(emit) = 1
        /\ emit[1].to = s
        /\ emit[1].ev = "answer-rejected"
        /\ emit[1].data = "Jawaban sudah ada"
        /\ players[s] # <<>>
        /\ players[s][1].roomId = r
        /\ players[s][1].roundAnswers = 0
        /\ activeRooms[r] # <<>>
        /\ Len(activeRooms[r][1].players) = 2
        /\ db[r] # <<>>
        /\ db[r][1].currentRound # <<>>
        /\ Len(db[r][1].currentRound[1].answers) = 1
        /\ db[r][1].currentRound[1].answers[1].isValid
        /\ db[r][1].currentRound[1].answers[1].playerId # s

\* The step changes the game settings of the stored room
SettingsChanged(r) ==
    /\ db[r] # <<>>
    /\ db'[r] # <<>>
    /\ db'[r][1].gameSettings # db[r][1].gameSettings

\* C36: the game settings of a room change only by an update-settings of a
\* member of the room who is its owner; an update-settings of a connection
\* that is not the owner of the stored room is answered with room-error to
\* it alone and changes nothing of the rooms
C36_SettingsOwnerOnly ==
    [][ \A r \in RoomIds :
          /\ SettingsChanged(r) =>
                \E s \in Sockets :
                    /\ h[s].pc = "settings2"
                    /\ h[s].roomId = r
                    /\ h'[s] = Idle
                    /\ InRoom(s, r)
                    /\ db[r][1].ownerId = s
                    /\ db'[r][1].gameSettings = h[s].settings
          /\ \A s \in Sockets :
                ( /\ h[s].pc = "settings2"
                  /\ h[s].roomId = r
                  /\ h'[s] # h[s]
                  /\ db[r] # <<>>
                  /\ db[r][1].ownerId # s )
                => /\ Len(emit') = 1
                   /\ emit'[1].to = s
                   /\ emit'[1].ev = "room-error"
                   /\ UNCHANGED <<db, hot, activeRooms, players, timers>> ]_vars

\* A member who is not the owner asked for new settings and was just
\* answered that only the owner can change them; the room keeps its settings
C36_Witness ==
    \E s \in Sockets, r \in RoomIds :
        /\ h[s] = Idle
        /\ Len(emit) = 1
        /\ emit[1].to = s
        /\ emit[1].ev = "room-error"
        /\ emit[1].data = "Only room owner can change settings"
        /\ InRoom(s, r)
        /\ db[r] # <<>>
        /\ db[r][1].ownerId # s
        /\ db[r][1].ownerId \in Sockets
        /\ db[r][1].gameSettings = DefaultSettings

\* The step is the announcement of a hand-over of room r by the disconnect
\* of s
HandOverAnnounced(s, r) ==
    /\ h[s].pc = "disc3"
    /\ h[s].roomId = r
    /\ h'[s] = Idle
    /\ activeRooms[r] # <<>>
    /\ Len(activeRooms[r][1].players) > 0
    /\ db[r] # <<>>

\* C37: when an owner disconnects and leaves members behind, the owner the
\* stored room records and the owner ownership-transferred announces, by id
\* and by username, is the earliest joined of the remaining members
C37_EarliestMemberBecomesOwner ==
    [][ \A r \in RoomIds : \A s \in Sockets :
          HandOverAnnounced(s, r) =>
              LET earliest == activeRooms[r][1].players[1] IN
              /\ db[r][1].ownerId = earliest.id
              /\ db[r][1].ownerUsername = earliest.username
              /\ emit'[1].ev = "ownership-transferred"
              /\ emit'[1].data.newOwnerId = earliest.id
              /\ emit'[1].data.newOwnerUsername = earliest.username ]_vars

\* The requirements as a set of type and value
RequirementSet(requirements) ==
    { << requirements[i].type, ReqValueChars(requirements[i]) >> :
         i \in 1..Len(requirements) }

\* C38: requirement sets that differ in a value do not share an entry of the
\* validation-result tier: their keys for the same theme and word differ
C38_DistinctSetsDistinctEntries ==
    pure.fn = "reqCacheKey" =>
        ( RequirementSet(pure.first) # RequirementSet(pure.second)
            => pure.firstKey # pure.secondKey )

\* The step is the periodic sweep deleting the stored room r
SweepDeletes(r) ==
    /\ h[r].pc = "sweep2"
    /\ h'[r] = Idle
    /\ db[r] # <<>>
    /\ db'[r] = <<>>

\* C39: the periodic sweep does not delete the stored room of a room whose
\* active room holds members or whose timer is armed
C39_SweepSparesLiveRooms ==
    [][ \A r \in RoomIds :
          SweepDeletes(r) =>
              /\ activeRooms[r] # <<>> =>
                    /\ Len(activeRooms[r][1].players) = 0
                    /\ ~activeRooms[r][1].roundTimer
              /\ timers[r] = [round |-> 0, grace |-> 0, cleanup |-> 0] ]_vars

\* The step ends a join of room r by s, who was a member of r in the stored
\* room, in the active room and in the players map when it began
RepeatedJoin(s, r) ==
    /\ h[s].pc = "join2"
    /\ h[s].op = "join-room"
    /\ h[s].roomId = r
    /\ h'[s] = Idle
    /\ HasPlayer(h[s].snap.players, s)
    /\ InRoom(s, r)
    /\ s \in Members(activeRooms[r])
    /\ s \in DurableMembers(db[r])

\* The members of an active room with their scores and counters, in order
ActiveMembers(activeRoom) ==
    [ i \in 1..Len(activeRoom[1].players) |->
        [ id |-> activeRoom[1].players[i].id,
          score |-> activeRoom[1].players[i].score,
          roundAnswers |-> activeRoom[1].players[i].roundAnswers ] ]

\* C40: a join of a room by a connection that is already a member of it
\* leaves the member lists of the stored room and of the active room, and
\* the member's score and counter, as they were
C40_RepeatedJoinIdempotent ==
    [][ \A r \in RoomIds : \A s \in Sockets :
          RepeatedJoin(s, r) =>
              /\ db'[r] = db[r]
              /\ ActiveMembers(activeRooms'[r]) = ActiveMembers(activeRooms[r])
              /\ players'[s][1].score = players[s][1].score
              /\ players'[s][1].roundAnswers = players[s][1].roundAnswers ]_vars

====
